---- MODULE Spec2Model ----
(***************************************************************************)
(* The .strings parser of dotstrings (parser.py) and the entry model       *)
(* (dot_strings_entry.py).  A text is a sequence of one-character strings; *)
(* offsets are 0-based as in the Python code, so the character at offset o *)
(* of s is s[o + 1].                                                       *)
(***************************************************************************)
EXTENDS Integers, Sequences, FiniteSets, TLC

\* ------------------------------------------------------------------ text

DQ == "\""

NL == "\n"

\* The value re.match / Scanner.scan give when nothing matches (None).
NoMatch == -1

\* Python's \s and str.strip() whitespace, over the characters of the model.
IsSpace(c) == c \in {" ", "\n", "\t", "\r"}

At(s, o) == s[o + 1]

\* s[a:b] of Python: the characters at offsets a .. b-1.
Slice(s, a, b) == SubSeq(s, a + 1, b)

Max(S) == CHOOSE x \in S : \A y \in S : y <= x

Min(S) == CHOOSE x \in S : \A y \in S : x <= y

\* str.count("\n")
CountNewlines(s) == Cardinality({i \in 1..Len(s) : s[i] = NL})

Reverse(s) == [i \in 1..Len(s) |-> s[Len(s) + 1 - i]]

\* pat in s
Contains(s, pat) ==
    \E i \in 0..(Len(s) - Len(pat)) : Slice(s, i, i + Len(pat)) = pat

StartsWith(s, pat) == Len(s) >= Len(pat) /\ Slice(s, 0, Len(pat)) = pat

\* s.replace(pat, "", 1)
RemoveFirst(s, pat) ==
    IF Contains(s, pat)
    THEN LET i == Min({j \in 0..(Len(s) - Len(pat)) : Slice(s, j, j + Len(pat)) = pat})
         IN  Slice(s, 0, i) \o Slice(s, i + Len(pat), Len(s))
    ELSE s

\* s.replace("\r\n", "\n")
RECURSIVE ReplaceCRLF(_)
ReplaceCRLF(s) ==
    IF s = << >> THEN << >>
    ELSE IF StartsWith(s, <<"\r", "\n">>) THEN <<NL>> \o ReplaceCRLF(Slice(s, 2, Len(s)))
    ELSE <<Head(s)>> \o ReplaceCRLF(Tail(s))

\* s.strip()
Strip(s) ==
    LET keep == {i \in 1..Len(s) : ~IsSpace(s[i])}
    IN  IF keep = {} THEN << >> ELSE SubSeq(s, Min(keep), Max(keep))

\* s.split("\n")
RECURSIVE Split(_)
Split(s) ==
    LET nls == {i \in 1..Len(s) : s[i] = NL}
    IN  IF nls = {} THEN <<s>>
        ELSE <<SubSeq(s, 1, Min(nls) - 1)>> \o Split(SubSeq(s, Min(nls) + 1, Len(s)))

\* [c.strip() for c in parts]
StripAll(parts) == [i \in 1..Len(parts) |-> Strip(parts[i])]

\* -------------------------------------------------------------- patterns

\* Patterns.whitespace, \s*: the end of the whitespace run that starts at o.
WhitespaceEnd(s, o) ==
    CHOOSE e \in o..Len(s) :
        /\ \A i \in o..(e - 1) : IsSpace(At(s, i))
        /\ (e = Len(s) \/ ~IsSpace(At(s, e)))

\* " *" of the entry patterns: the end of the run of spaces that starts at o.
SpacesEnd(s, o) ==
    CHOOSE e \in o..Len(s) :
        /\ \A i \in o..(e - 1) : At(s, i) = " "
        /\ (e = Len(s) \/ At(s, e) # " ")

\* '(?:[^'\\]|\\[\s\S])*' from the body offset i on: the end of the literal.
RECURSIVE QuoteLiteralEnd(_, _)
QuoteLiteralEnd(s, i) ==
    IF i >= Len(s) THEN NoMatch
    ELSE IF At(s, i) = "'" THEN i + 1
    ELSE IF At(s, i) = "\\"
         THEN IF i + 1 < Len(s) THEN QuoteLiteralEnd(s, i + 2) ELSE NoMatch
    ELSE QuoteLiteralEnd(s, i + 1)

\* //.* : up to, not including, the next newline.
LineCommentEnd(s, o) ==
    LET nls == {i \in (o + 2)..(Len(s) - 1) : At(s, i) = NL}
    IN  IF nls = {} THEN Len(s) ELSE Min(nls)

\* /\*(?:[^*]|\*(?!/))*\*/ : up to the first "*/" behind the opening "/*".
BlockCommentEnd(s, o) ==
    LET ends == {i \in (o + 2)..(Len(s) - 2) : At(s, i) = "*" /\ At(s, i + 1) = "/"}
    IN  IF ends = {} THEN NoMatch ELSE Min(ends) + 2

\* Patterns.comment matched at offset o: the end offset, or NoMatch.
MatchComment(s, o) ==
    IF o >= Len(s) THEN NoMatch
    ELSE IF At(s, o) = "'" THEN QuoteLiteralEnd(s, o + 1)
    ELSE IF o + 1 < Len(s) /\ At(s, o) = "/" /\ At(s, o + 1) = "/" THEN LineCommentEnd(s, o)
    ELSE IF o + 1 < Len(s) /\ At(s, o) = "/" /\ At(s, o + 1) = "*" THEN BlockCommentEnd(s, o)
    ELSE NoMatch

\* A failed entry match.
NoEntry == [end |-> NoMatch, key |-> << >>, value |-> << >>]

\* "(.*)" *; behind the opening quote of the value, the value starting at v0: the
\* offsets of the closing quotes that let the rest of the pattern match.
ValueEnds(s, v0) ==
    {q \in v0..(Len(s) - 1) :
        /\ \A i \in v0..(q - 1) : At(s, i) # NL
        /\ At(s, q) = DQ
        /\ SpacesEnd(s, q + 1) < Len(s)
        /\ At(s, SpacesEnd(s, q + 1)) = ";"}

\* \s*=\s*" at offset a: the offset behind the opening quote of the value, or NoMatch.
AssignEnd(s, a) ==
    LET e == WhitespaceEnd(s, a)
    IN  IF e < Len(s) /\ At(s, e) = "="
        THEN LET b == WhitespaceEnd(s, e + 1)
             IN  IF b < Len(s) /\ At(s, b) = DQ THEN b + 1 ELSE NoMatch
        ELSE NoMatch

\* The greedy (.*) of the value: the last closing quote that works.
ValueMatch(s, v0, key) ==
    LET q == Max(ValueEnds(s, v0))
    IN  [end |-> SpacesEnd(s, q + 1) + 1, key |-> key, value |-> Slice(s, v0, q)]

\* Patterns.entry, "(.*)"\s*=\s*"(.*)" *; matched at offset o.  The key's (.*) is
\* greedy: the backtracking engine settles on the last closing quote that works.
MatchEntry(s, o) ==
    IF o >= Len(s) \/ At(s, o) # DQ THEN NoEntry
    ELSE LET ends == {q \in (o + 1)..(Len(s) - 1) :
                        /\ \A i \in (o + 1)..(q - 1) : At(s, i) # NL
                        /\ At(s, q) = DQ
                        /\ AssignEnd(s, q + 1) # NoMatch
                        /\ ValueEnds(s, AssignEnd(s, q + 1)) # {}}
         IN  IF ends = {} THEN NoEntry
             ELSE ValueMatch(s, AssignEnd(s, Max(ends) + 1), Slice(s, o + 1, Max(ends)))

\* Mutant: the quoted pattern compiled a second time in place of the quoteless one.
MatchQuotelessEntryQuoted(s, o) == MatchEntry(s, o)

\* Patterns.quoteless_key_entry, (.*?)\s*=\s*"(.*)" *; matched at offset o.  The
\* key's (.*?) is lazy: the engine settles on the shortest key that works.
MatchQuotelessEntry(s, o) ==
    LET ends == {e \in o..Len(s) :
                    /\ \A i \in o..(e - 1) : At(s, i) # NL
                    /\ AssignEnd(s, e) # NoMatch
                    /\ ValueEnds(s, AssignEnd(s, e)) # {}}
    IN  IF ends = {} THEN NoEntry
        ELSE ValueMatch(s, AssignEnd(s, Min(ends)), Slice(s, o, Min(ends)))

\* pattern.search(m): the leftmost match in m.
SearchEntry(m) ==
    LET at == {p \in 0..Len(m) : MatchEntry(m, p).end # NoMatch}
    IN  IF at = {} THEN NoEntry ELSE MatchEntry(m, Min(at))

SearchQuotelessEntry(m) ==
    LET at == {p \in 0..Len(m) : MatchQuotelessEntry(m, p).end # NoMatch}
    IN  IF at = {} THEN NoEntry ELSE MatchQuotelessEntry(m, Min(at))

\* ---------------------------------------------------------- entry model

\* DotStringsEntry(key, value, comments, original_line)
DotStringsEntry(key, value, comments, original_line) ==
    [key |-> key, value |-> value, comments |-> comments, original_line |-> original_line]

\* Mutant: __eq__ compares original_line as well.
EntryEqWithLine(a, b) ==
    /\ a.key = b.key
    /\ a.value = b.value
    /\ a.comments = b.comments
    /\ a.original_line = b.original_line

\* DotStringsEntry.__eq__: structural over key, value and comments.
EntryEq(a, b) == a.key = b.key /\ a.value = b.value /\ a.comments = b.comments

\* f'"{self.key}" = "{self.value}";'
KeyValueLine(e) == <<DQ>> \o e.key \o <<DQ, " ", "=", " ", DQ>> \o e.value \o <<DQ, ";">>

\* The middle comments of the three-or-more branch: f"   {comment}\n" for each.
RECURSIVE MiddleLines(_)
MiddleLines(cs) ==
    IF cs = << >> THEN << >>
    ELSE <<" ", " ", " ">> \o Head(cs) \o <<NL>> \o MiddleLines(Tail(cs))

\* Mutant: the continuation line of the two-comment branch indented by 2 spaces.
strings_format_short_indent(e) ==
    LET n == Len(e.comments)
        c == e.comments
    IN  IF n = 0 THEN KeyValueLine(e)
        ELSE IF n = 1
        THEN <<"/", "*", " ">> \o c[1] \o <<" ", "*", "/", NL>> \o KeyValueLine(e)
        ELSE IF n = 2
        THEN <<"/", "*", " ">> \o c[1] \o <<NL, " ", " ">> \o c[2]
                 \o <<" ", "*", "/", NL>> \o KeyValueLine(e)
        ELSE <<"/", "*", " ">> \o c[1] \o <<NL>>
                 \o MiddleLines(SubSeq(c, 2, n - 1))
                 \o <<" ", " ", " ">> \o c[n] \o <<" ", "*", "/", NL>> \o KeyValueLine(e)

\* DotStringsEntry.strings_format
strings_format(e) ==
    LET n == Len(e.comments)
        c == e.comments
    IN  IF n = 0 THEN KeyValueLine(e)
        ELSE IF n = 1
        THEN <<"/", "*", " ">> \o c[1] \o <<" ", "*", "/", NL>> \o KeyValueLine(e)
        ELSE IF n = 2
        THEN <<"/", "*", " ">> \o c[1] \o <<NL, " ", " ", " ">> \o c[2]
                 \o <<" ", "*", "/", NL>> \o KeyValueLine(e)
        ELSE <<"/", "*", " ">> \o c[1] \o <<NL>>
                 \o MiddleLines(SubSeq(c, 2, n - 1))
                 \o <<" ", " ", " ">> \o c[n] \o <<" ", "*", "/", NL>> \o KeyValueLine(e)

\* ---------------------------------------------------------------- state

VARIABLES
    contents,       \* the argument of loads
    pc,             \* where loads (and load and normalize around it) stands
    string,         \* Scanner.string (empty until the Scanner is constructed)
    offset,         \* Scanner.offset
    line,           \* Scanner.line
    strings,        \* the list loads builds
    comments,       \* the comments collected for the entry being read
    entry,          \* the text the entry scan returned
    regular_entry,  \* whether the quoted pattern produced it
    result,         \* the list loads returned
    error,          \* the exception loads raised
    nscans,         \* history: the number of Scanner.scan calls made
    keyOffsets,     \* history: for each entry of strings, the offset its scan began at
    input,          \* history: how contents was built and what it is made of
    original,       \* history: the entry whose strings_format is being parsed again
    files,          \* the file system: the bytes of each existing path
    args,           \* the arguments of the call of load or normalize
    encoding_list,  \* load: the candidate encodings not yet tried
    tried,          \* history: the encodings load opened the file with, in order
    exception,      \* the exception load or normalize raised outside loads
    before,         \* history: the file system when normalize was called
    runs,           \* history: the number of calls of normalize made on the file
    dict_pc,        \* which stringsdict operation is called, or how it ended
    dict_self,      \* DotStringsDictEntry.merge: self
    dict_another,   \* DotStringsDictEntry.merge: another
    dict_contents,  \* DotStringsDictEntry.parse: contents
    dict_result,    \* what DotStringsDictEntry.parse returned or raised
    dict_before,    \* history: self before merge
    bundle_pc,      \* which LocalizedBundle method is called, or how it ended
    bundle_call,    \* the arguments of that method
    raw_entries,    \* LocalizedBundle.raw_entries of self
    other,          \* LocalizedBundle.raw_entries of other (merge_bundle)
    bundle_result,  \* what the method returned or raised
    bundle_before,  \* history: raw_entries of self before the method
    eq_pc,          \* which method of an entry is called, or that it returned
    eq_self,        \* DotStringsEntry.__eq__ and __hash__: self
    eq_other,       \* DotStringsEntry.__eq__: other
    eq_result,      \* what __eq__ returned, and the hashes that were computed
    calls,          \* the local state of each of two calls of loads under way
    p2_pc,          \* parser2.loads: where it stands
    p2_all_tokens,  \* parser2.loads: all_tokens, as the lexer produced them
    p2_groups,      \* parser2.loads: the groups not yet turned into entries
    p2_entries,     \* parser2.loads: entries
    p2_error,       \* the exception parser2.loads raised
    p2_done         \* history: the groups parser2.loads has been through

\* The variables of loads.
parser_vars == <<contents, pc, string, offset, line, strings, comments, entry,
                 regular_entry, result, error, nscans, keyOffsets, input, original>>

\* The variables of load and normalize around loads.
file_vars == <<files, args, encoding_list, tried, exception, before, runs>>

\* The variables of the stringsdict entries.
dict_vars == <<dict_pc, dict_self, dict_another, dict_contents, dict_result, dict_before>>

\* The variables of the bundles.
bundle_vars == <<bundle_pc, bundle_call, raw_entries, other, bundle_result, bundle_before>>

\* The variables of the comparison of entries.
entry_vars == <<eq_pc, eq_self, eq_other, eq_result>>

\* The variables of two calls of loads side by side.
call_vars == <<calls>>

\* The variables of the token-stream parser.
parser2_vars == <<p2_pc, p2_all_tokens, p2_groups, p2_entries, p2_error, p2_done>>

\* What loads never touches.
outside == <<file_vars, dict_vars, bundle_vars, entry_vars, call_vars, parser2_vars>>

vars == <<parser_vars, file_vars, dict_vars, bundle_vars, entry_vars, call_vars,
          parser2_vars>>

NoError == [message |-> "", offset |-> NoMatch]

\* ------------------------------------------------------------- scanner

\* Scanner.has_more
has_more == offset < Len(string)

\* Mutant: scan does not count the newlines of the matched text.
scanKeepingLine(end) ==
    IF end = NoMatch
    THEN [matched |-> FALSE, text |-> << >>, offset |-> offset, line |-> line]
    ELSE [matched |-> TRUE,
          text |-> Slice(string, offset, end),
          offset |-> end,
          line |-> line]

\* Mutant: scan skips one character when the pattern does not match.
scanSkipping(end) ==
    IF end = NoMatch
    THEN [matched |-> FALSE, text |-> << >>, offset |-> offset + 1, line |-> line]
    ELSE [matched |-> TRUE,
          text |-> Slice(string, offset, end),
          offset |-> end,
          line |-> line + CountNewlines(Slice(string, offset, end))]

\* Mutant: scan returns the matched text and leaves the cursor where it was.
scanStaying(end) ==
    IF end = NoMatch
    THEN [matched |-> FALSE, text |-> << >>, offset |-> offset, line |-> line]
    ELSE [matched |-> TRUE,
          text |-> Slice(string, offset, end),
          offset |-> offset,
          line |-> line]

\* Scanner.scan, given where the pattern's match at offset ends (NoMatch: no match):
\* the text returned and the scanner's new offset and line.
scan(end) ==
    IF end = NoMatch
    THEN [matched |-> FALSE, text |-> << >>, offset |-> offset, line |-> line]
    ELSE [matched |-> TRUE,
          text |-> Slice(string, offset, end),
          offset |-> end,
          line |-> line + CountNewlines(Slice(string, offset, end))]

\* Lines 134-144 of loads: the comment syntax cleared, the comment split.
CommentComponents(comment) ==
    LET cleared ==
            IF StartsWith(comment, <<"/", "/">>) THEN RemoveFirst(comment, <<"/", "/">>)
            ELSE IF StartsWith(comment, <<"/", "*">>)
            THEN Reverse(RemoveFirst(Reverse(RemoveFirst(comment, <<"/", "*">>)), <<"/", "*">>))
            ELSE comment
    IN  StripAll(Split(Strip(cleared)))

\* ------------------------------------------------------------- loads

Raise(message, at) ==
    /\ pc' = "raised"
    /\ error' = [message |-> message, offset |-> at]
    /\ UNCHANGED result

Return ==
    /\ pc' = "returned"
    /\ result' = strings
    /\ UNCHANGED error

\* Mutant: the CRLF check left out, so that CRLF is replaced by LF and parsed.
LoadsNormalizing ==
    /\ pc = "start"
    /\ string' = ReplaceCRLF(contents)
    /\ offset' = 0
    /\ line' = 0
    /\ strings' = << >>
    /\ pc' = "loop"
    /\ UNCHANGED <<result, error>>
    /\ UNCHANGED <<contents, comments, entry, regular_entry, nscans, keyOffsets,
                   input, original>>
    /\ UNCHANGED outside

\* Mutant: the Scanner starts on line 1.
LoadsFromLineOne ==
    /\ pc = "start"
    /\ IF Contains(contents, <<"\r", NL>>)
       THEN /\ Raise("Strings contain CRLF", NoMatch)
            /\ UNCHANGED <<string, offset, line, strings>>
       ELSE /\ string' = ReplaceCRLF(contents)
            /\ offset' = 0
            /\ line' = 1
            /\ strings' = << >>
            /\ pc' = "loop"
            /\ UNCHANGED <<result, error>>
    /\ UNCHANGED <<contents, comments, entry, regular_entry, nscans, keyOffsets,
                   input, original>>
    /\ UNCHANGED outside

\* Lines 111-117: the CRLF check, then the Scanner and the list.
Loads ==
    /\ pc = "start"
    /\ IF Contains(contents, <<"\r", NL>>)
       THEN /\ Raise("Strings contain CRLF", NoMatch)
            /\ UNCHANGED <<string, offset, line, strings>>
       ELSE /\ string' = ReplaceCRLF(contents)
            /\ offset' = 0
            /\ line' = 0
            /\ strings' = << >>
            /\ pc' = "loop"
            /\ UNCHANGED <<result, error>>
    /\ UNCHANGED <<contents, comments, entry, regular_entry, nscans, keyOffsets,
                   input, original>>
    /\ UNCHANGED outside

\* Line 120: while scanner.has_more(); line 182 when it has not.
WhileHasMore ==
    /\ pc = "loop"
    /\ IF has_more
       THEN pc' = "whitespace" /\ UNCHANGED <<result, error>>
       ELSE Return
    /\ UNCHANGED <<contents, string, offset, line, strings, comments, entry,
                   regular_entry, nscans, keyOffsets, input, original>>
    /\ UNCHANGED outside

\* Mutant: the comment list is not started afresh for the next entry.
ClearWhitespaceKeepingComments ==
    /\ pc = "whitespace"
    /\ LET r == scan(WhitespaceEnd(string, offset))
       IN  offset' = r.offset /\ line' = r.line
    /\ nscans' = nscans + 1
    /\ pc' = "comment"
    /\ UNCHANGED <<contents, string, strings, comments, entry, regular_entry, result,
                   error, keyOffsets, input, original>>
    /\ UNCHANGED outside

\* Lines 122-124: the whitespace before the comments is cleared.
ClearWhitespace ==
    /\ pc = "whitespace"
    /\ LET r == scan(WhitespaceEnd(string, offset))
       IN  offset' = r.offset /\ line' = r.line
    /\ comments' = << >>
    /\ nscans' = nscans + 1
    /\ pc' = "comment"
    /\ UNCHANGED <<contents, string, strings, entry, regular_entry, result, error,
                   keyOffsets, input, original>>
    /\ UNCHANGED outside

\* Lines 128-145: one turn of the comment loop.
GetComment ==
    /\ pc = "comment"
    /\ LET r == scan(MatchComment(string, offset))
       IN  /\ offset' = r.offset
           /\ line' = r.line
           /\ IF r.matched
              THEN /\ comments' = comments \o CommentComponents(r.text)
                   /\ pc' = "comment_whitespace"
              ELSE /\ comments' = comments
                   /\ pc' = "entry"
    /\ nscans' = nscans + 1
    /\ UNCHANGED <<contents, string, strings, entry, regular_entry, result, error,
                   keyOffsets, input, original>>
    /\ UNCHANGED outside

\* Line 148: the whitespace behind a comment is pulled out.
PullWhitespace ==
    /\ pc = "comment_whitespace"
    /\ LET r == scan(WhitespaceEnd(string, offset))
       IN  offset' = r.offset /\ line' = r.line
    /\ nscans' = nscans + 1
    /\ pc' = "comment"
    /\ UNCHANGED <<contents, string, strings, comments, entry, regular_entry, result,
                   error, keyOffsets, input, original>>
    /\ UNCHANGED outside

\* Lines 152-155: the quoted pattern is tried first.
ScanEntry ==
    /\ pc = "entry"
    /\ LET r == scan(MatchEntry(string, offset).end)
       IN  /\ offset' = r.offset
           /\ line' = r.line
           /\ entry' = r.text
           /\ pc' = IF r.matched THEN "extract" ELSE "quoteless"
    /\ regular_entry' = TRUE
    /\ nscans' = nscans + 1
    /\ UNCHANGED <<contents, string, strings, comments, result, error, keyOffsets,
                   input, original>>
    /\ UNCHANGED outside

\* Mutant: when no entry matches, the loop is left whether or not input remains.
ScanQuotelessEntryTruncating ==
    /\ pc = "quoteless"
    /\ LET r == scan(MatchQuotelessEntry(string, offset).end)
       IN  /\ offset' = r.offset
           /\ line' = r.line
           /\ entry' = r.text
           /\ IF r.matched
              THEN /\ pc' = "extract"
                   /\ UNCHANGED <<result, error>>
              ELSE Return
    /\ regular_entry' = FALSE
    /\ nscans' = nscans + 1
    /\ UNCHANGED <<contents, string, strings, comments, keyOffsets, input, original>>
    /\ UNCHANGED outside

\* Mutant: when no entry matches, the error is raised whether or not input remains.
ScanQuotelessEntryStrict ==
    /\ pc = "quoteless"
    /\ LET r == scan(MatchQuotelessEntry(string, offset).end)
       IN  /\ offset' = r.offset
           /\ line' = r.line
           /\ entry' = r.text
           /\ IF r.matched
              THEN /\ pc' = "extract"
                   /\ UNCHANGED <<result, error>>
              ELSE Raise("Expected an entry at offset", offset)
    /\ regular_entry' = FALSE
    /\ nscans' = nscans + 1
    /\ UNCHANGED <<contents, string, strings, comments, keyOffsets, input, original>>
    /\ UNCHANGED outside

\* Lines 156-164: the quoteless pattern, and the end of the text or the error.
ScanQuotelessEntry ==
    /\ pc = "quoteless"
    /\ LET r == scan(MatchQuotelessEntry(string, offset).end)
       IN  /\ offset' = r.offset
           /\ line' = r.line
           /\ entry' = r.text
           /\ IF r.matched
              THEN /\ pc' = "extract"
                   /\ UNCHANGED <<result, error>>
              ELSE IF has_more
                   THEN Raise("Expected an entry at offset", offset)
                   ELSE Return
    /\ regular_entry' = FALSE
    /\ nscans' = nscans + 1
    /\ UNCHANGED <<contents, string, strings, comments, keyOffsets, input, original>>
    /\ UNCHANGED outside

\* Lines 167-180: the key and the value are extracted and the entry is appended.
ExtractEntry ==
    /\ pc = "extract"
    /\ LET m == IF regular_entry THEN SearchEntry(entry) ELSE SearchQuotelessEntry(entry)
       IN  IF m.end = NoMatch
           THEN /\ Raise("Failed to parse entry at offset", offset)
                /\ UNCHANGED <<strings, keyOffsets>>
           ELSE /\ strings' = Append(strings, DotStringsEntry(m.key, m.value, comments, line))
                /\ keyOffsets' = Append(keyOffsets, offset - Len(entry))
                /\ pc' = "loop"
                /\ UNCHANGED <<result, error>>
    /\ UNCHANGED <<contents, string, offset, line, comments, entry, regular_entry,
                   nscans, input, original>>
    /\ UNCHANGED outside

\* Round trip: loads is called again on strings_format of a returned entry.
Reparse ==
    /\ pc = "returned"
    /\ original = << >>
    /\ \E i \in 1..Len(result) :
        /\ contents' = strings_format(result[i])
        /\ original' = <<result[i]>>
    /\ pc' = "start"
    /\ string' = << >>
    /\ offset' = 0
    /\ line' = 0
    /\ strings' = << >>
    /\ comments' = << >>
    /\ entry' = << >>
    /\ regular_entry' = TRUE
    /\ result' = << >>
    /\ error' = NoError
    /\ nscans' = 0
    /\ keyOffsets' = << >>
    /\ UNCHANGED input
    /\ UNCHANGED outside

\* --------------------------------------------------------------- inputs

\* The most statements in an input text.
MaxStmts == 2

\* The most comment tokens in front of a statement, or trivia tokens behind the last.
MaxTokens == 2

\* The longest value of the quoteless inputs.
MaxValueLen == 2

\* What an input is expected to parse to: key, value and comments of one entry.
Expected(key, value, cs) == [key |-> key, value |-> value, comments |-> cs]

KeyOf(i) == <<"k", ToString(i)>>

\* "key" = "value";
QuotedStatement(k, v) == <<DQ>> \o k \o <<DQ, " ", "=", " ", DQ>> \o v \o <<DQ, ";">>

\* "key"  ="value" ;
UnevenStatement(k, v) == <<DQ>> \o k \o <<DQ, " ", " ", "=", DQ>> \o v \o <<DQ, " ", ";">>

\* key = "value";
QuotelessStatement(k, v) == k \o <<" ", "=", " ", DQ>> \o v \o <<DQ, ";">>

Values == {<<"v">>, << >>, <<"\\", DQ, "w">>}

Separators == {<<NL>>, <<" ">>, <<" ", NL, NL>>}

\* Texts of exactly n quoted statements separated by whitespace.
RECURSIVE QuotedTexts(_)
QuotedTexts(n) ==
    IF n = 0 THEN {[text |-> << >>, expect |-> << >>]}
    ELSE {[text |-> p.text \o sep
                       \o (IF even THEN QuotedStatement(KeyOf(n), v)
                                   ELSE UnevenStatement(KeyOf(n), v)),
           expect |-> Append(p.expect, Expected(KeyOf(n), v, << >>))] :
            p \in QuotedTexts(n - 1), sep \in (IF n = 1 THEN {<< >>} ELSE Separators),
            v \in Values, even \in BOOLEAN}

\* The first n statements, one to a line, without the last line's newline.
RECURSIVE Lines(_)
Lines(n) ==
    IF n = 0 THEN [text |-> << >>, expect |-> << >>]
    ELSE [text |-> Lines(n - 1).text \o (IF n = 1 THEN << >> ELSE <<NL>>)
                       \o QuotedStatement(KeyOf(n), <<"v">>),
          expect |-> Append(Lines(n - 1).expect, Expected(KeyOf(n), <<"v">>, << >>))]

\* Comment tokens, each with the whitespace that ends it and the fragments it holds.
CommentTokens ==
    { [text |-> <<"/", "/", " ", "c", NL>>, frags |-> << <<"c">> >>],
      [text |-> <<"/", "/", NL>>, frags |-> << << >> >>],
      [text |-> <<"/", "*", " ", "c", " ", "*", "/", NL>>, frags |-> << <<"c">> >>],
      [text |-> <<"/", "*", "c", NL, " ", " ", "d", " ", "*", "/", " ">>,
       frags |-> << <<"c">>, <<"d">> >>],
      [text |-> <<"'", "q", "'", NL>>, frags |-> << <<"'", "q", "'">> >>] }

\* Groups of at most n comment tokens.
RECURSIVE CommentGroups(_)
CommentGroups(n) ==
    IF n = 0 THEN {[text |-> << >>, frags |-> << >>]}
    ELSE CommentGroups(n - 1) \cup
         {[text |-> g.text \o t.text, frags |-> g.frags \o t.frags] :
            g \in CommentGroups(n - 1), t \in CommentTokens}

\* One commented statement, or two: the second one behind at most one token.
CommentedTexts ==
    LET one == {[text |-> g.text \o QuotedStatement(KeyOf(1), <<"v">>),
                 expect |-> <<Expected(KeyOf(1), <<"v">>, g.frags)>>] :
                    g \in CommentGroups(MaxTokens)}
    IN  one \cup
        {[text |-> p.text \o <<NL>> \o g.text \o QuotedStatement(KeyOf(2), <<"w">>),
          expect |-> Append(p.expect, Expected(KeyOf(2), <<"w">>, g.frags))] :
            p \in one, g \in CommentGroups(1)}

\* Text that is no entry, with the offset in it at which the parser gives up.
BadTails ==
    { [text |-> <<"/", "*", " ", "x">>, at |-> 0],
      [text |-> <<DQ, "k", DQ>>, at |-> 0],
      [text |-> <<"k", " ">>, at |-> 0],
      [text |-> <<DQ, "k", DQ, " ", "=", " ", DQ, "v", DQ>>, at |-> 0],
      [text |-> <<"/", "/", " ", "c", NL, " ", DQ, "k", DQ, " ", "=">>, at |-> 6],
      [text |-> <<"x", NL, DQ, "k", DQ, " ", "=", " ", DQ, "v", DQ, ";">>, at |-> 0] }

MalformedTexts ==
    {[text |-> Lines(n).text \o (IF n = 0 THEN << >> ELSE <<NL>>) \o t.text,
      at |-> Len(Lines(n).text) + (IF n = 0 THEN 0 ELSE 1) + t.at] :
        n \in 0..MaxStmts, t \in BadTails}

CRLF == <<"\r", NL>>

CRLFTexts ==
    { CRLF,
      Lines(1).text \o CRLF,
      QuotedStatement(KeyOf(1), <<"v">>) \o CRLF \o QuotedStatement(KeyOf(2), <<"v">>),
      QuotedStatement(KeyOf(1), <<"v">> \o CRLF \o <<"w">>),
      <<"/", "/", " ", "c">> \o CRLF \o Lines(1).text,
      <<"k", " ">> \o CRLF }

MultilineValues == {<<"v", NL, "w">>, <<"v", NL>>, <<"v", NL, NL, "w">>}

MultilineTexts ==
    {[text |-> QuotedStatement(KeyOf(1), v) \o (IF n = 0 THEN << >> ELSE <<NL>>) \o Lines(n).text,
      expect |-> <<Expected(KeyOf(1), v, << >>)>> \o Lines(n).expect] :
        v \in MultilineValues, n \in 0..1}

\* Bare identifiers: letters and digits only.
Identifiers == {<<"a">>, <<"K", "1">>, <<"N", "S", "x">>}

\* Every text of length n, and then of length at most n, without quote or newline.
RECURSIVE ValuesOfLen(_)
ValuesOfLen(n) ==
    IF n = 0 THEN {<< >>}
    ELSE {Append(v, c) : v \in ValuesOfLen(n - 1), c \in {"v", " ", ";", "="}}

QuotelessTexts ==
    {[text |-> QuotelessStatement(k, v), expect |-> <<Expected(k, v, << >>)>>] :
        k \in Identifiers, v \in UNION {ValuesOfLen(n) : n \in 0..MaxValueLen}}

\* Whitespace and complete comments; a line comment ends with its line.
TriviaTokens ==
    { <<NL>>, <<" ">>, <<"/", "/", " ", "t", NL>>, <<"/", "*", " ", "t", " ", "*", "/">>,
      <<"/", "*", "t", NL, "u", "*", "/">> }

RECURSIVE TriviaTails(_)
TriviaTails(n) ==
    IF n = 0 THEN {<< >>}
    ELSE TriviaTails(n - 1) \cup {t \o x : t \in TriviaTails(n - 1), x \in TriviaTokens}

\* Statement lines, then trivia, then possibly a line comment that ends the text.
TrailingTexts ==
    {[text |-> Lines(n).text \o t \o last, expect |-> Lines(n).expect] :
        n \in 0..MaxStmts, t \in TriviaTails(MaxTokens),
        last \in {<< >>, <<"/", "/", "e">>}}

\* Statements with line breaks around the "=".
SpreadStatements ==
    { [text |-> <<DQ, "k", "1", DQ, NL, "=", " ", DQ, "v", DQ, ";">>, key |-> KeyOf(1)],
      [text |-> <<DQ, "k", "1", DQ, " ", "=", NL, NL, DQ, "v", DQ, ";">>, key |-> KeyOf(1)],
      [text |-> <<"k", "1", NL, "=", NL, DQ, "v", DQ, ";">>, key |-> KeyOf(1)] }

SpreadTexts ==
    {[text |-> lead \o st.text, expect |-> <<Expected(st.key, <<"v">>, << >>)>>] :
        lead \in {<< >>, <<NL>>, <<"/", "/", " ", "c", NL>>}, st \in SpreadStatements}

\* Statements whose key is no bare identifier and is not quoted either: no key, a
\* key of two words, a key behind an opening quote alone, and a good one.
LooseKeys == {<< >>, <<"a", " ", "b">>, <<DQ, "k">>, <<"a">>}

LooseTexts ==
    {[text |-> lead \o QuotelessStatement(k, <<"v">>),
      expect |-> <<Expected(k, <<"v">>, << >>)>>] :
        lead \in {<< >>, <<"/", "/", " ", "c", NL>>}, k \in LooseKeys}

Input(kind, text, expect, at) == [kind |-> kind, text |-> text, expect |-> expect, at |-> at]

Inputs ==
    {Input("quoted", t.text, t.expect, NoMatch) :
        t \in UNION {QuotedTexts(n) : n \in 0..MaxStmts}}
    \cup {Input("commented", t.text, t.expect, NoMatch) : t \in CommentedTexts}
    \cup {Input("malformed", t.text, << >>, t.at) : t \in MalformedTexts}
    \cup {Input("crlf", t, << >>, NoMatch) : t \in CRLFTexts}
    \cup {Input("multiline", t.text, t.expect, NoMatch) : t \in MultilineTexts}
    \cup {Input("quoteless", t.text, t.expect, NoMatch) : t \in QuotelessTexts}
    \cup {Input("trailing", t.text, t.expect, NoMatch) : t \in TrailingTexts}
    \cup {Input("spread", t.text, t.expect, NoMatch) : t \in SpreadTexts}
    \cup {Input("loose", t.text, t.expect, NoMatch) : t \in LooseTexts}

\* ------------------------------------------------ what a call leaves alone

\* No exception was raised outside loads.
NoException == [type |-> "", message |-> "", about |-> ""]

\* No file is read or written: loads is called on a text.
FilesIdle ==
    /\ files = << >>
    /\ args = [op |-> "loads"]
    /\ encoding_list = << >>
    /\ tried = << >>
    /\ exception = NoException
    /\ before = << >>
    /\ runs = 0

\* No stringsdict entry is at hand.
DictIdle ==
    /\ dict_pc = "idle"
    /\ dict_self = << >>
    /\ dict_another = << >>
    /\ dict_contents = << >>
    /\ dict_result = << >>
    /\ dict_before = << >>

\* No bundle is at hand.
BundleIdle ==
    /\ bundle_pc = "idle"
    /\ bundle_call = << >>
    /\ raw_entries = << >>
    /\ other = << >>
    /\ bundle_result = << >>
    /\ bundle_before = << >>

\* No entries are compared.
EntryIdle ==
    /\ eq_pc = "idle"
    /\ eq_self = << >>
    /\ eq_other = << >>
    /\ eq_result = << >>

\* No two calls of loads run side by side.
CallsIdle == calls = << >>

\* The token-stream parser is not called.
Parser2Idle ==
    /\ p2_pc = "idle"
    /\ p2_all_tokens = << >>
    /\ p2_groups = << >>
    /\ p2_entries = << >>
    /\ p2_error = [message |-> "", lexpos |-> NoMatch]
    /\ p2_done = << >>

\* ---------------------------------------------------------- specification

Init ==
    /\ input \in Inputs
    /\ contents = input.text
    /\ pc = "start"
    /\ string = << >>
    /\ offset = 0
    /\ line = 0
    /\ strings = << >>
    /\ comments = << >>
    /\ entry = << >>
    /\ regular_entry = TRUE
    /\ result = << >>
    /\ error = NoError
    /\ nscans = 0
    /\ keyOffsets = << >>
    /\ original = << >>
    /\ FilesIdle
    /\ DictIdle
    /\ BundleIdle
    /\ EntryIdle
    /\ CallsIdle
    /\ Parser2Idle

Next ==
    \/ Loads
    \/ WhileHasMore
    \/ ClearWhitespace
    \/ GetComment
    \/ PullWhitespace
    \/ ScanEntry
    \/ ScanQuotelessEntry
    \/ ExtractEntry
    \/ Reparse

Spec == Init /\ [][Next]_vars

\* ---------------------------------------------------------------- claims

\* loads has ended: it returned or it raised.
Ended == pc \in {"returned", "raised"}

\* The first parse of an input text, as opposed to the parse of a strings_format.
FirstParse == original = << >>

\* result has the keys and values the input text is made of, in source order.
ResultIsExpected ==
    /\ pc = "returned"
    /\ Len(result) = Len(input.expect)
    /\ \A i \in 1..Len(result) :
        /\ result[i].key = input.expect[i].key
        /\ result[i].value = input.expect[i].value

\* C1: a text that contains CR LF makes loads raise the CRLF error before the
\* Scanner exists and before any scan: nothing is scanned, collected or returned,
\* and the text is never parsed with its CRLF replaced by LF.
C1_CRLFRejected ==
    Contains(contents, CRLF) =>
        /\ pc \in {"start", "raised"}
        /\ pc = "raised" => error = [message |-> "Strings contain CRLF", offset |-> NoMatch]
        /\ nscans = 0
        /\ string = << >>
        /\ strings = << >>
        /\ result = << >>

C1_Witness ==
    /\ Contains(contents, CRLF)
    /\ pc = "raised"
    /\ error.message = "Strings contain CRLF"
    /\ Len(contents) > Len(CRLF)

\* C2: a text of n quoted statements separated by whitespace (a newline, or only
\* spaces) parses to exactly n entries, in source order, with the statements' keys
\* and values.
C2_QuotedStatements ==
    (input.kind = "quoted" /\ FirstParse /\ Ended) => ResultIsExpected

\* C3: the comments of every returned entry are exactly the fragments of the comment
\* tokens in front of its statement, in source order, delimiters removed, trimmed and
\* split at newlines; no comment of one entry shows up in another entry.
C3_CommentsOfEntry ==
    (input.kind = "commented" /\ FirstParse /\ Ended) =>
        /\ ResultIsExpected
        /\ \A i \in 1..Len(result) : result[i].comments = input.expect[i].comments

C3_Witness ==
    /\ input.kind = "commented"
    /\ FirstParse
    /\ pc = "returned"
    /\ Len(result) = 2
    /\ Len(result[1].comments) >= 2
    /\ result[2].comments # << >>
    /\ result[2].comments # result[1].comments

\* C4: when no entry pattern matches and input remains, loads raises the parse error
\* with the scanner's offset and returns nothing, whatever it had parsed before; it
\* never returns with input left over.
C4_ParseError ==
    /\ (pc = "raised" /\ error.message = "Expected an entry at offset") =>
        /\ error.offset = offset
        /\ has_more
        /\ MatchEntry(string, offset) = NoEntry
        /\ MatchQuotelessEntry(string, offset) = NoEntry
        /\ result = << >>
    /\ pc = "returned" => ~has_more
    /\ (input.kind = "malformed" /\ FirstParse /\ Ended) =>
        /\ pc = "raised"
        /\ error = [message |-> "Expected an entry at offset", offset |-> input.at]
        /\ result = << >>

C4_Witness ==
    /\ input.kind = "malformed"
    /\ pc = "raised"
    /\ error.message = "Expected an entry at offset"
    /\ Len(strings) >= 1
    /\ result = << >>

\* C5: a quoted value that spans line breaks parses to one entry whose value holds
\* the newlines as written, the entries behind it are parsed too, and the line
\* counter has advanced over the newlines of the value.
C5_MultilineValue ==
    (input.kind = "multiline" /\ FirstParse /\ Ended) =>
        /\ ResultIsExpected
        /\ line = CountNewlines(contents)

\* C6: K = "V"; with a bare identifier K and a value V without quote or newline
\* parses to exactly one entry, of key K and value V.
C6_QuotelessKey ==
    (input.kind = "quoteless" /\ FirstParse /\ Ended) =>
        /\ ResultIsExpected
        /\ Len(result) = 1

C6_Witness ==
    /\ input.kind = "quoteless"
    /\ pc = "returned"
    /\ Len(result) = 1
    /\ ~regular_entry
    /\ result[1].key = <<"N", "S", "x">>
    /\ result[1].value = <<"=", ";">>

\* C7: loads of strings_format(e), for an entry e that loads produced, returns
\* exactly one entry, equal to e in key, value and comments.
C7_RoundTrip ==
    (~FirstParse /\ Ended) =>
        /\ pc = "returned"
        /\ Len(result) = 1
        /\ EntryEq(result[1], original[1])

\* The layout C8 describes: the key/value line alone, or behind one block comment
\* that holds the comments, the second and later ones on lines indented by 3 spaces.
RECURSIVE FurtherComments(_)
FurtherComments(cs) ==
    IF cs = << >> THEN << >>
    ELSE <<NL, " ", " ", " ">> \o Head(cs) \o FurtherComments(Tail(cs))

Layout(e) ==
    LET kv == <<DQ>> \o e.key \o <<DQ, " ", "=", " ", DQ>> \o e.value \o <<DQ, ";">>
    IN  IF e.comments = << >> THEN kv
        ELSE <<"/", "*", " ">> \o Head(e.comments) \o FurtherComments(Tail(e.comments))
                 \o <<" ", "*", "/", NL>> \o kv

\* C8: strings_format of an entry with 0, 1, 2 or more comments is that one layout.
C8_StringsFormat ==
    \A i \in 1..Len(strings) : strings_format(strings[i]) = Layout(strings[i])

C8_Witness ==
    /\ Len(strings) = 2
    /\ Len(strings[1].comments) >= 3
    /\ Len(strings[2].comments) = 1

\* C9: original_line of an entry is the number of newlines in front of the first
\* character of its key token.
C9_OriginalLine ==
    \A i \in 1..Len(strings) :
        strings[i].original_line = CountNewlines(Slice(string, 0, keyOffsets[i]))

\* Nothing but whitespace and complete comments from offset o to the end of s.
RECURSIVE TriviaOnly(_, _)
TriviaOnly(s, o) ==
    LET w == WhitespaceEnd(s, o)
    IN  IF w = Len(s) THEN TRUE
        ELSE IF MatchComment(s, w) = NoMatch THEN FALSE
        ELSE TriviaOnly(s, MatchComment(s, w))

\* loads stands behind an entry (or at the start) or in the trivia that follows it.
BetweenEntries ==
    pc \in {"loop", "whitespace", "comment", "comment_whitespace", "entry", "quoteless"}

None == "None"

\* The characters the files are made of, each with its code point.
Characters ==
    {<<DQ, 34>>, <<" ", 32>>, <<"=", 61>>, <<";", 59>>, <<NL, 10>>, <<"\r", 13>>,
     <<"/", 47>>, <<"*", 42>>, <<"a", 97>>, <<"b", 98>>, <<"c", 99>>, <<"d", 100>>,
     <<"k", 107>>, <<"q", 113>>, <<"v", 118>>, <<"w", 119>>, <<"U+233", 233>>}

\* chr: the character of a code point; one outside Characters gets its number's name.
chr(i) ==
    IF \E p \in Characters : p[2] = i
    THEN (CHOOSE p \in Characters : p[2] = i)[1]
    ELSE "U+" \o ToString(i)

\* ord: the code point of a character of Characters.
ord(c) == (CHOOSE p \in Characters : p[1] = c)[2]

\* What a decoder yields: the code points, or the exception it raises.
Decoded(text) == [error |-> "", text |-> text]

Undecodable(type) == [error |-> type, text |-> << >>]

\* The number of bytes of the UTF-8 sequence a lead byte begins (0: not a lead byte).
SequenceLength(b0) ==
    IF b0 < 128 THEN 1
    ELSE IF b0 \in 194..223 THEN 2
    ELSE IF b0 \in 224..239 THEN 3
    ELSE IF b0 \in 240..244 THEN 4
    ELSE 0

\* The values the second byte of a sequence may have after lead byte b0.
SecondBytes(b0) ==
    IF b0 = 224 THEN 160..191
    ELSE IF b0 = 237 THEN 128..159
    ELSE IF b0 = 240 THEN 144..191
    ELSE IF b0 = 244 THEN 128..143
    ELSE 128..191

\* The elements of s at the positions of keep, in their order.
Pick(s, keep) ==
    [k \in 1..Cardinality(keep) |->
        s[CHOOSE i \in keep : Cardinality({j \in keep : j < i}) = k - 1]]

\* The sequences of ss one behind the other.
RECURSIVE Flatten(_)
Flatten(ss) ==
    IF Len(ss) = 0 THEN << >>
    ELSE IF Len(ss) = 1 THEN ss[1]
    ELSE Flatten(SubSeq(ss, 1, Len(ss) \div 2))
         \o Flatten(SubSeq(ss, Len(ss) \div 2 + 1, Len(ss)))

\* The code point of the UTF-8 sequence of n bytes at position i of b.
Utf8CodePoint(b, i, n) ==
    CASE n = 1 -> b[i]
      [] n = 2 -> (b[i] - 192) * 64 + (b[i + 1] - 128)
      [] n = 3 -> (b[i] - 224) * 4096 + (b[i + 1] - 128) * 64 + (b[i + 2] - 128)
      [] n = 4 -> (b[i] - 240) * 262144 + (b[i + 1] - 128) * 4096
                  + (b[i + 2] - 128) * 64 + (b[i + 3] - 128)

\* The codec utf-8: every byte outside 128..191 begins a sequence that is complete,
\* and every byte of 128..191 belongs to the sequence begun before it.
utf_8_decode(b) ==
    LET leads == {i \in 1..Len(b) : b[i] \notin 128..191}
        whole(i) ==
            LET n == SequenceLength(b[i])
            IN  /\ n > 0
                /\ i + n - 1 <= Len(b)
                /\ \A j \in (i + 1)..(i + n - 1) : b[j] \in 128..191
                /\ n > 1 => b[i + 1] \in SecondBytes(b[i])
        owned(j) ==
            /\ \E i \in leads : i < j
            /\ LET i == Max({l \in leads : l < j}) IN j <= i + SequenceLength(b[i]) - 1
    IN  IF /\ \A i \in leads : whole(i)
           /\ \A j \in (1..Len(b)) \ leads : owned(j)
        THEN Decoded(Pick([i \in 1..Len(b) |->
                              IF i \in leads
                              THEN Utf8CodePoint(b, i, SequenceLength(b[i]))
                              ELSE 0],
                          leads))
        ELSE Undecodable("UnicodeDecodeError")

\* The codec utf-8-sig as a text file is read with it: a leading byte order mark is
\* dropped, and a file that is only the beginning of one reads as the empty text.
utf_8_sig_decode(b) ==
    IF Len(b) < 3 /\ b = SubSeq(<<239, 187, 191>>, 1, Len(b)) THEN Decoded(<< >>)
    ELSE IF Len(b) >= 3 /\ SubSeq(b, 1, 3) = <<239, 187, 191>>
    THEN utf_8_decode(SubSeq(b, 4, Len(b)))
    ELSE utf_8_decode(b)

\* The 16-bit unit number j (from 1) of b.
Unit(b, j, little) ==
    IF little THEN b[2 * j - 1] + 256 * b[2 * j] ELSE 256 * b[2 * j - 1] + b[2 * j]

\* The code points of the units of b: a high surrogate (55296..56319) is followed by
\* a low one (56320..57343) and a low one follows a high one.
Utf16CodePoints(b, little) ==
    LET n == Len(b) \div 2
        u(j) == Unit(b, j, little)
        high(j) == u(j) \in 55296..56319
        low(j) == u(j) \in 56320..57343
        firsts == {j \in 1..n : ~low(j)}
    IN  IF /\ \A j \in 1..n : high(j) => j < n /\ low(j + 1)
           /\ \A j \in 1..n : low(j) => j > 1 /\ high(j - 1)
        THEN Decoded(Pick([j \in 1..n |->
                              IF high(j)
                              THEN 65536 + (u(j) - 55296) * 1024 + (u(j + 1) - 56320)
                              ELSE u(j)],
                          firsts))
        ELSE Undecodable("UnicodeDecodeError")

\* The codecs utf-16-le and utf-16-be: no byte order mark is looked for.
utf_16_le_decode(b) ==
    IF Len(b) % 2 = 1 THEN Undecodable("UnicodeDecodeError") ELSE Utf16CodePoints(b, TRUE)

utf_16_be_decode(b) ==
    IF Len(b) % 2 = 1 THEN Undecodable("UnicodeDecodeError") ELSE Utf16CodePoints(b, FALSE)

\* The codec utf-16 as a text file is read with it: the byte order mark decides.
\* Without one the units are taken low byte first (the order of the machine): a
\* surrogate out of place raises UnicodeDecodeError, and otherwise, once a unit is
\* decoded, the decoder raises UnicodeError ("UTF-16 stream does not start with
\* BOM"), which is the base class of UnicodeDecodeError, not a UnicodeDecodeError.
utf_16_decode(b) ==
    LET n == Len(b) \div 2
        high(j) == Unit(b, j, TRUE) \in 55296..56319
        low(j) == Unit(b, j, TRUE) \in 56320..57343
    IN  IF Len(b) = 0 THEN Decoded(<< >>)
        ELSE IF Len(b) = 1 THEN Undecodable("UnicodeDecodeError")
        ELSE IF SubSeq(b, 1, 2) = <<255, 254>> THEN utf_16_le_decode(SubSeq(b, 3, Len(b)))
        ELSE IF SubSeq(b, 1, 2) = <<254, 255>> THEN utf_16_be_decode(SubSeq(b, 3, Len(b)))
        ELSE IF \/ \E j \in 1..n : low(j) /\ ~(j > 1 /\ high(j - 1))
                \/ \E j \in 1..(n - 1) : high(j) /\ ~low(j + 1)
                \/ (n = 1 /\ high(1))
        THEN Undecodable("UnicodeDecodeError")
        ELSE Undecodable("UnicodeError")

\* bytes.decode by the name of the codec.
decode(encoding, b) ==
    CASE encoding = "utf-8-sig" -> utf_8_sig_decode(b)
      [] encoding = "utf-8" -> utf_8_decode(b)
      [] encoding = "utf-16" -> utf_16_decode(b)
      [] encoding = "utf-16-le" -> utf_16_le_decode(b)
      [] encoding = "utf-16-be" -> utf_16_be_decode(b)

\* A text file is read with universal newlines: CR LF and CR become LF.
TranslateNewlines(s) ==
    Pick([i \in 1..Len(s) |-> IF s[i] = "\r" THEN NL ELSE s[i]],
         {i \in 1..Len(s) : ~(s[i] = NL /\ i > 1 /\ s[i - 1] = "\r")})

\* open(path, "r", encoding=...) and "".join(readlines()): the text of the file.
read(path, encoding) ==
    LET d == decode(encoding, files[path])
    IN  IF d.error # "" THEN d
        ELSE Decoded(TranslateNewlines([i \in 1..Len(d.text) |-> chr(d.text[i])]))

\* The bytes of one code point in UTF-8.
Utf8Bytes(cp) ==
    IF cp < 128 THEN <<cp>>
    ELSE IF cp < 2048 THEN <<192 + (cp \div 64), 128 + (cp % 64)>>
    ELSE IF cp < 65536
    THEN <<224 + (cp \div 4096), 128 + ((cp \div 64) % 64), 128 + (cp % 64)>>
    ELSE <<240 + (cp \div 262144), 128 + ((cp \div 4096) % 64),
           128 + ((cp \div 64) % 64), 128 + (cp % 64)>>

\* str.encode("utf-8").
utf_8_encode(cps) == Flatten([i \in 1..Len(cps) |-> Utf8Bytes(cps[i])])

\* str.encode for utf-16-le and utf-16-be, on code points below 65536.
utf_16_encode(cps, little) ==
    Flatten([i \in 1..Len(cps) |->
                IF little THEN <<cps[i] % 256, cps[i] \div 256>>
                ELSE <<cps[i] \div 256, cps[i] % 256>>])

\* The code points of a text of Characters.
Ords(text) == [i \in 1..Len(text) |-> ord(text[i])]

\* ----------------------------------------------------------------- load

\* Line 89: the candidates when no encoding is given.
DefaultEncodings == <<"utf-8-sig", "utf-8", "utf-16", "utf-16-le", "utf-16-be">>

\* Lines 86-89: load of a path begins; the list of encodings to try.
Load ==
    /\ pc = "load"
    /\ encoding_list' = IF args.encoding # None THEN <<args.encoding>> ELSE DefaultEncodings
    /\ pc' = "open"
    /\ UNCHANGED <<contents, string, offset, line, strings, comments, entry,
                   regular_entry, result, error, nscans, keyOffsets, input, original>>
    /\ UNCHANGED <<files, args, tried, exception, before, runs>>
    /\ UNCHANGED <<dict_vars, bundle_vars, entry_vars, call_vars, parser2_vars>>

\* Mutant: every exception of the open or the read leads to the next candidate.
OpenWithEncodingCatchingAll ==
    /\ pc = "open"
    /\ encoding_list # << >>
    /\ LET encoding_option == Head(encoding_list)
           r == read(args.file_details, encoding_option)
       IN  /\ tried' = Append(tried, encoding_option)
           /\ IF r.error = ""
              THEN /\ contents' = r.text
                   /\ pc' = "start"
                   /\ UNCHANGED <<encoding_list, exception>>
              ELSE /\ encoding_list' = Tail(encoding_list)
                   /\ UNCHANGED <<contents, pc, exception>>
    /\ UNCHANGED <<string, offset, line, strings, comments, entry, regular_entry,
                   result, error, nscans, keyOffsets, input, original>>
    /\ UNCHANGED <<files, args, before, runs>>
    /\ UNCHANGED <<dict_vars, bundle_vars, entry_vars, call_vars, parser2_vars>>

\* Lines 91-96: the file is opened with the next candidate and read; the text goes
\* to loads, a UnicodeDecodeError leads to the next candidate, and any other
\* exception leaves load.
OpenWithEncoding ==
    /\ pc = "open"
    /\ encoding_list # << >>
    /\ LET encoding_option == Head(encoding_list)
           r == read(args.file_details, encoding_option)
       IN  /\ tried' = Append(tried, encoding_option)
           /\ IF r.error = ""
              THEN /\ contents' = r.text
                   /\ pc' = "start"
                   /\ UNCHANGED <<encoding_list, exception>>
              ELSE IF r.error = "UnicodeDecodeError"
              THEN /\ encoding_list' = Tail(encoding_list)
                   /\ UNCHANGED <<contents, pc, exception>>
              ELSE /\ pc' = "failed"
                   /\ exception' = [type |-> r.error,
                                    message |-> "UTF-16 stream does not start with BOM",
                                    about |-> encoding_option]
                   /\ UNCHANGED <<contents, encoding_list>>
    /\ UNCHANGED <<string, offset, line, strings, comments, entry, regular_entry,
                   result, error, nscans, keyOffsets, input, original>>
    /\ UNCHANGED <<files, args, before, runs>>
    /\ UNCHANGED <<dict_vars, bundle_vars, entry_vars, call_vars, parser2_vars>>

\* Line 97: no candidate is left.
CouldNotDetermineEncoding ==
    /\ pc = "open"
    /\ encoding_list = << >>
    /\ pc' = "failed"
    /\ exception' = [type |-> "DotStringsException",
                     message |-> "Could not determine encoding for file at path:",
                     about |-> args.file_details]
    /\ UNCHANGED <<contents, string, offset, line, strings, comments, entry,
                   regular_entry, result, error, nscans, keyOffsets, input, original>>
    /\ UNCHANGED <<files, args, encoding_list, tried, before, runs>>
    /\ UNCHANGED <<dict_vars, bundle_vars, entry_vars, call_vars, parser2_vars>>

\* ----------------------------------------------------- the files load gets

\* Texts without blanks: a quoted entry with a character beyond ASCII, a comment with
\* a quoted and a quoteless entry, a key without a value, an entry before CR LF.
LoadTexts ==
    {<<DQ, "k", DQ, "=", DQ, "U+233", DQ, ";">>,
     <<"/", "*", "c", "*", "/", NL, DQ, "k", DQ, "=", DQ, "v", DQ, ";", NL,
       "q", "=", DQ, "w", DQ, ";", NL>>,
     <<DQ, "k", DQ>>,
     <<DQ, "k", DQ, "=", DQ, "v", DQ, ";", "\r", NL>>}

\* Each text in the six ways a file may hold it.
EncodedTexts ==
    UNION {{utf_8_encode(Ords(t)),
            <<239, 187, 191>> \o utf_8_encode(Ords(t)),
            <<255, 254>> \o utf_16_encode(Ords(t), TRUE),
            <<254, 255>> \o utf_16_encode(Ords(t), FALSE),
            utf_16_encode(Ords(t), TRUE),
            utf_16_encode(Ords(t), FALSE)} : t \in LoadTexts}

\* Files that are no text in some or in any encoding: the empty file, one byte, and
\* a little-endian byte order mark before a surrogate that has no partner.
OddFiles == {<< >>, <<255>>, <<233>>, <<255, 254, 0, 216>>}

LoadFiles == EncodedTexts \cup OddFiles

\* The path of the file read.
StringsPath == "in.strings"

\* The parser before loads is called.
ParserIdle ==
    /\ input = Input("file", << >>, << >>, NoMatch)
    /\ contents = << >>
    /\ string = << >>
    /\ offset = 0
    /\ line = 0
    /\ strings = << >>
    /\ comments = << >>
    /\ entry = << >>
    /\ regular_entry = TRUE
    /\ result = << >>
    /\ error = NoError
    /\ nscans = 0
    /\ keyOffsets = << >>
    /\ original = << >>

\* load(path) and load(path, encoding) on each file.
InitLoad ==
    /\ files \in {[p \in {StringsPath} |-> f] : f \in LoadFiles}
    /\ args \in {[op |-> "load", file_details |-> StringsPath, encoding |-> e] :
                    e \in {None} \cup {DefaultEncodings[i] : i \in DOMAIN DefaultEncodings}}
    /\ pc = "load"
    /\ ParserIdle
    /\ encoding_list = << >>
    /\ tried = << >>
    /\ exception = NoException
    /\ before = << >>
    /\ runs = 0
    /\ DictIdle
    /\ BundleIdle
    /\ EntryIdle
    /\ CallsIdle
    /\ Parser2Idle

NextLoad ==
    \/ Load
    \/ OpenWithEncoding
    \/ CouldNotDetermineEncoding
    \/ Loads
    \/ WhileHasMore
    \/ ClearWhitespace
    \/ GetComment
    \/ PullWhitespace
    \/ ScanEntry
    \/ ScanQuotelessEntry
    \/ ExtractEntry

SpecLoad == InitLoad /\ [][NextLoad]_vars

\* load has ended: loads returned or raised, or load raised before loads was called.
LoadEnded == pc \in {"returned", "raised", "failed"}

\* The candidates of the call, in the order of the list.
Candidates == IF args.encoding # None THEN <<args.encoding>> ELSE DefaultEncodings

\* The candidates that decode the whole file.
Decoding == {i \in DOMAIN Candidates : decode(Candidates[i], files[args.file_details]).error = ""}

\* C11: load tries the candidates in their fixed order (only the given encoding when
\* one is given) and parses the text of the first that decodes the whole file; when
\* none decodes it, load fails with the encoding error that names the path.
C11_EncodingOrder ==
    /\ \E n \in 0..Len(Candidates) : tried = SubSeq(Candidates, 1, n)
    /\ LoadEnded =>
        IF Decoding # {}
        THEN /\ pc \in {"returned", "raised"}
             /\ tried = SubSeq(Candidates, 1, Min(Decoding))
             /\ contents = read(args.file_details, Candidates[Min(Decoding)]).text
        ELSE /\ pc = "failed"
             /\ tried = Candidates
             /\ exception.type = "DotStringsException"
             /\ exception.about = args.file_details

\* ============================================================ normalize
\* normalize (__init__.py 130-183): load, sort, merge the duplicates, write.

\* Python's < on two sequences is decided where they first differ: the positions
\* where they differ.
Differ(a, b) == {i \in 1..Min({Len(a), Len(b)}) : a[i] # b[i]}

\* < on str: by code point.
StrLess(a, b) ==
    IF Differ(a, b) = {} THEN Len(a) < Len(b)
    ELSE ord(a[Min(Differ(a, b))]) < ord(b[Min(Differ(a, b))])

\* < on lists of str.
ListLess(a, b) ==
    IF Differ(a, b) = {} THEN Len(a) < Len(b)
    ELSE StrLess(a[Min(Differ(a, b))], b[Min(Differ(a, b))])

\* Line 154: the key entries are sorted by.
SortKey(e) == <<e.key>> \o e.comments

\* Line 154: entries.sort(key=...); the sort is stable.
Sorted(entries) ==
    LET n == Len(entries)
        rank(i) == Cardinality({j \in 1..n :
                        \/ ListLess(SortKey(entries[j]), SortKey(entries[i]))
                        \/ (SortKey(entries[j]) = SortKey(entries[i]) /\ j < i)})
    IN  [k \in 1..n |-> entries[CHOOSE i \in 1..n : rank(i) = k - 1]]

\* Lines 156-163: the entries that are appended to deduped_entries.
Heads(s) == {i \in 1..Len(s) : i = 1 \/ s[i].key # s[i - 1].key}

\* deduped_entries[-1] when entry number i of the sorted list is looked at.
HeadOf(s, i) == Max({h \in Heads(s) : h <= i})

\* Mutant: duplicates with one value are merged whatever remove_duplicates says.
ConflictsOfValuesOnly(s, remove_duplicates) ==
    {i \in (1..Len(s)) \ Heads(s) : s[HeadOf(s, i)].value # s[i].value}

\* Line 167: the entries at which the exception is raised.
Conflicts(s, remove_duplicates) ==
    {i \in (1..Len(s)) \ Heads(s) : s[HeadOf(s, i)].value # s[i].value \/ ~remove_duplicates}

\* Lines 174-175: list(set(comments)) sorted.
SortedSet(S) ==
    [k \in 1..Cardinality(S) |->
        CHOOSE x \in S : Cardinality({y \in S : StrLess(y, x)}) = k - 1]

\* Lines 156-175: deduped_entries, the comments of the duplicates of an entry
\* appended to its own and then, with sort_comments, made a sorted set.
deduped_entries(s, sort_comments) ==
    LET last(h) == Max({i \in 1..Len(s) : HeadOf(s, i) = h})
        extended(h) == Flatten([k \in 1..(last(h) - h + 1) |-> s[h + k - 1].comments])
        merged(h) ==
            [s[h] EXCEPT !.comments =
                IF sort_comments
                THEN SortedSet({extended(h)[k] : k \in 1..Len(extended(h))})
                ELSE extended(h)]
    IN  Pick([i \in 1..Len(s) |-> IF i \in Heads(s) THEN merged(i) ELSE s[i]], Heads(s))

\* Lines 180-183: what is written to the file, in UTF-8.
Written(entries) ==
    utf_8_encode(Ords(Flatten([i \in 1..Len(entries) |->
                                  strings_format(entries[i]) \o <<NL, NL>>])))

\* Lines 154-183, once load has returned the entries.
normalize ==
    /\ pc = "returned"
    /\ args.op = "normalize"
    /\ LET entries == Sorted(result)
           conflicts == Conflicts(entries, args.remove_duplicates)
           output_path == IF args.output_path = None THEN args.strings_path
                          ELSE args.output_path
       IN  IF Len(entries) = 0
           THEN /\ pc' = "failed"
                /\ exception' = [type |-> "IndexError",
                                 message |-> "list index out of range",
                                 about |-> ""]
                /\ UNCHANGED files
           ELSE IF conflicts # {}
           THEN /\ pc' = "failed"
                /\ exception' = [type |-> "Exception",
                                 message |-> "Found duplicate strings with key:",
                                 about |-> entries[Min(conflicts)].key]
                /\ UNCHANGED files
           ELSE /\ pc' = "written"
                /\ files' = [q \in DOMAIN files \cup {output_path} |->
                                IF q = output_path
                                THEN Written(deduped_entries(entries, args.sort_comments))
                                ELSE files[q]]
                /\ UNCHANGED exception
    /\ UNCHANGED <<contents, string, offset, line, strings, comments, entry,
                   regular_entry, result, error, nscans, keyOffsets, input, original>>
    /\ UNCHANGED <<args, encoding_list, tried, before, runs>>
    /\ UNCHANGED <<dict_vars, bundle_vars, entry_vars, call_vars, parser2_vars>>

\* normalize is called again, on the file it wrote, in place.
NormalizeAgain ==
    /\ pc = "written"
    /\ runs = 1
    /\ LET written == IF args.output_path = None THEN args.strings_path
                      ELSE args.output_path
       IN  args' = [args EXCEPT !.strings_path = written, !.file_details = written,
                                !.output_path = None]
    /\ before' = files
    /\ runs' = 2
    /\ pc' = "load"
    /\ contents' = << >>
    /\ string' = << >>
    /\ offset' = 0
    /\ line' = 0
    /\ strings' = << >>
    /\ comments' = << >>
    /\ entry' = << >>
    /\ regular_entry' = TRUE
    /\ result' = << >>
    /\ error' = NoError
    /\ nscans' = 0
    /\ keyOffsets' = << >>
    /\ encoding_list' = << >>
    /\ tried' = << >>
    /\ UNCHANGED <<input, original, files, exception>>
    /\ UNCHANGED <<dict_vars, bundle_vars, entry_vars, call_vars, parser2_vars>>

\* ------------------------------------------------ the files normalize gets

\* The most entries a file holds.
MaxEntries == 2

\* What stands before a statement: nothing, a comment, an empty comment and a comment.
Leads == {<< >>, <<"/", "/", "c", NL>>, <<"/", "/", NL, "/", "/", "c", NL>>}

\* The statements, each on its line.
Statements ==
    {lead \o <<DQ, k, DQ, "=", DQ, v, DQ, ";", NL>> :
        lead \in Leads, k \in {"a", "b"}, v \in {"v", "w"}}

\* The texts of n statements.
RECURSIVE NormalizeTexts(_)
NormalizeTexts(n) ==
    IF n = 0 THEN {<< >>}
    ELSE {t \o s : t \in NormalizeTexts(n - 1), s \in Statements}

\* The files: the texts in UTF-8, one entry beyond ASCII with a byte order mark in
\* UTF-16, and a file no candidate encoding decodes.
NormalizeFiles ==
    {utf_8_encode(Ords(t)) : t \in UNION {NormalizeTexts(n) : n \in 0..MaxEntries}}
    \cup {<<255, 254>> \o utf_16_encode(Ords(<<DQ, "k", DQ, "=", DQ, "U+233", DQ, ";">>), TRUE),
          <<255>>}

\* The path normalize may be told to write to.
OutputPath == "out.strings"

\* The calls: the default options in place and to an output path, and each option
\* turned off.
NormalizeCalls ==
    {[op |-> "normalize", strings_path |-> StringsPath, file_details |-> StringsPath,
      encoding |-> None, output_path |-> o[1], remove_duplicates |-> o[2],
      sort_comments |-> o[3]] :
        o \in {<<None, TRUE, TRUE>>, <<OutputPath, TRUE, TRUE>>,
               <<OutputPath, FALSE, TRUE>>, <<OutputPath, TRUE, FALSE>>}}

InitNormalize ==
    /\ files \in {[q \in {StringsPath} |-> f] : f \in NormalizeFiles}
    /\ args \in NormalizeCalls
    /\ before = files
    /\ runs = 1
    /\ pc = "load"
    /\ ParserIdle
    /\ encoding_list = << >>
    /\ tried = << >>
    /\ exception = NoException
    /\ DictIdle
    /\ BundleIdle
    /\ EntryIdle
    /\ CallsIdle
    /\ Parser2Idle

NextNormalize ==
    \/ Load
    \/ OpenWithEncoding
    \/ CouldNotDetermineEncoding
    \/ Loads
    \/ WhileHasMore
    \/ ClearWhitespace
    \/ GetComment
    \/ PullWhitespace
    \/ ScanEntry
    \/ ScanQuotelessEntry
    \/ ExtractEntry
    \/ normalize
    \/ NormalizeAgain

SpecNormalize == InitNormalize /\ [][NextNormalize]_vars

\* normalize has ended: it wrote the file, or an exception left it.
NormalizeEnded == pc \in {"written", "failed", "raised"}

\* The call has the default options.
DefaultOptions == args.remove_duplicates /\ args.sort_comments

\* The path the call writes to.
WrittenPath == IF args.output_path = None THEN args.strings_path ELSE args.output_path

\* C12: normalize on the output of a normalize that succeeded succeeds and writes
\* exactly the same bytes.
C12_Idempotent ==
    (runs = 2 /\ DefaultOptions /\ NormalizeEnded) =>
        /\ pc = "written"
        /\ files[WrittenPath] = before[WrittenPath]

\* load returned the entries to normalize: no exception of load or loads ended the call.
Parsed ==
    \/ pc = "written"
    \/ (pc = "failed" /\ exception.type \notin {"DotStringsException", "UnicodeError"})

\* No two entries loads returned have one key and different values.
NoConflictingDuplicates ==
    \A i, j \in 1..Len(result) :
        result[i].key = result[j].key => result[i].value = result[j].value

\* The entries the file should hold: each key once, in ascending order, with the
\* sorted set of the comments of all the entries that had the key.
ExpectedEntries ==
    LET keys == SortedSet({result[i].key : i \in 1..Len(result)})
        having(key) == {i \in 1..Len(result) : result[i].key = key}
    IN  [k \in 1..Len(keys) |->
            DotStringsEntry(keys[k],
                            result[CHOOSE i \in having(keys[k]) : TRUE].value,
                            SortedSet(UNION {{result[i].comments[c] :
                                                 c \in 1..Len(result[i].comments)} :
                                             i \in having(keys[k])}),
                            0)]

\* C13: for a file that parses to a list of entries, empty or not, without
\* conflicting duplicates, normalize with the default options writes each key once,
\* in ascending order, with the sorted union of its comments, a blank line behind
\* each entry.
C13_NormalizedOutput ==
    (args.op = "normalize" /\ runs = 1 /\ DefaultOptions /\ Parsed
        /\ NoConflictingDuplicates) =>
        /\ pc = "written"
        /\ files[WrittenPath] = Written(ExpectedEntries)

\* Two entries share a key and differ in value, or share a key while duplicates are
\* not to be removed.
SharedKey ==
    \E i, j \in 1..Len(result) :
        /\ i # j
        /\ result[i].key = result[j].key
        /\ (result[i].value # result[j].value \/ ~args.remove_duplicates)

\* C14: when two entries share a key and their values differ or remove_duplicates
\* is False, normalize raises the duplicate-key error and no file is written: the
\* file system is as it was when normalize was called.
C14_DuplicateKeyError ==
    (args.op = "normalize" /\ Parsed /\ SharedKey) =>
        /\ pc = "failed"
        /\ exception.type = "Exception"
        /\ exception.message = "Found duplicate strings with key:"
        /\ \E i, j \in 1..Len(result) :
            i # j /\ result[i].key = result[j].key /\ exception.about = result[i].key
        /\ files = before

\* Duplicates with one value met remove_duplicates = False, and the call failed.
C14_Witness ==
    /\ args.op = "normalize"
    /\ pc = "failed"
    /\ exception.type = "Exception"
    /\ ~args.remove_duplicates
    /\ NoConflictingDuplicates
    /\ files = before

\* =========================================================== stringsdict
\* DotStringsDictEntry and Variable (dot_stringsdict_entry.py).  A dict whose order
\* matters is a sequence of items [name, value]; a map of a variable is a function
\* on the keys it has.

VARIABLE_VALUE_TYPE_KEY == "NSStringFormatValueTypeKey"

VARIABLE_VALUE_SPEC_KEY == "NSStringFormatSpecTypeKey"

FORMAT_KEY == "NSStringLocalizedFormatKey"

VARIABLE_VALUE_SPEC_PLURAL == "NSStringPluralRuleType"

\* The plural categories, in the order of the attributes of Variable.
Categories == <<"zero", "one", "two", "few", "many", "other">>

\* The attribute of Variable that holds the value of a category.
Field(category) == category \o "_value"

\* dict.get(key): the value, or None.
Get(map, key) == IF key \in DOMAIN map THEN map[key] ELSE None

\* What a parse returns (an entry or a variable, in a sequence of one) or raises.
Returned(value) == [message |-> "", value |-> <<value>>]

Raised(message) == [message |-> message, value |-> << >>]

\* Mutant: the value of NSStringFormatSpecTypeKey is not looked at.
VariableParseAnySpec(map) ==
    IF VARIABLE_VALUE_SPEC_KEY \notin DOMAIN map
    THEN Raised("NSStringFormatSpecTypeKey missing in entry")
    ELSE IF VARIABLE_VALUE_TYPE_KEY \notin DOMAIN map
    THEN Raised("NSStringFormatValueTypeKey missing in entry")
    ELSE Returned([value_type |-> map[VARIABLE_VALUE_TYPE_KEY],
                   zero_value |-> Get(map, "zero"),
                   one_value |-> Get(map, "one"),
                   two_value |-> Get(map, "two"),
                   few_value |-> Get(map, "few"),
                   many_value |-> Get(map, "many"),
                   other_value |-> Get(map, "other")])

\* Variable.parse
VariableParse(map) ==
    IF VARIABLE_VALUE_SPEC_KEY \notin DOMAIN map
    THEN Raised("NSStringFormatSpecTypeKey missing in entry")
    ELSE IF map[VARIABLE_VALUE_SPEC_KEY] # VARIABLE_VALUE_SPEC_PLURAL
    THEN Raised("Value of NSStringFormatSpecTypeKey is not NSStringPluralRuleType")
    ELSE IF VARIABLE_VALUE_TYPE_KEY \notin DOMAIN map
    THEN Raised("NSStringFormatValueTypeKey missing in entry")
    ELSE Returned([value_type |-> map[VARIABLE_VALUE_TYPE_KEY],
                   zero_value |-> Get(map, "zero"),
                   one_value |-> Get(map, "one"),
                   two_value |-> Get(map, "two"),
                   few_value |-> Get(map, "few"),
                   many_value |-> Get(map, "many"),
                   other_value |-> Get(map, "other")])

\* DotStringsDictEntry(key, value, variables)
DotStringsDictEntry(key, value, variables) ==
    [key |-> key, value |-> value, variables |-> variables]

\* The dict of an entry is the value of its format key (none or one) and its other
\* keys, each with the map of a variable, in the order of the dict.
\* DotStringsDictEntry.parse(key, contents): the variables are parsed in the order
\* of the dict, and the first that fails ends the parse.
EntryParse(key, dict) ==
    LET items == dict.variables
        failing == {i \in 1..Len(items) : VariableParse(items[i].value).value = << >>}
    IN  IF dict.format = << >> THEN Raised("NSStringLocalizedFormatKey missing in entry")
        ELSE IF failing # {} THEN VariableParse(items[Min(failing)].value)
        ELSE Returned(DotStringsDictEntry(
                 key,
                 dict.format[1],
                 [name \in {items[i].name : i \in 1..Len(items)} |->
                     VariableParse(
                         items[CHOOSE i \in 1..Len(items) :
                                     items[i].name = name].value).value[1]]))

\* DotStringsDictEntry.parse, called.
parse ==
    /\ dict_pc = "parse"
    /\ dict_result' = EntryParse(dict_contents.key, dict_contents.contents)
    /\ dict_pc' = IF dict_result'.value = << >> THEN "raised" ELSE "parsed"
    /\ UNCHANGED <<dict_self, dict_another, dict_contents, dict_before>>
    /\ UNCHANGED <<parser_vars, file_vars, bundle_vars, entry_vars, call_vars, parser2_vars>>

\* DotStringsDictEntry.merge: each variable of self that another has gets all seven
\* attributes of another's.
merge ==
    /\ dict_pc = "merge"
    /\ dict_self' =
        [dict_self EXCEPT !.variables =
            [key \in DOMAIN dict_self.variables |->
                IF key \in DOMAIN dict_another.variables
                THEN [value_type |-> dict_another.variables[key].value_type,
                      zero_value |-> dict_another.variables[key].zero_value,
                      one_value |-> dict_another.variables[key].one_value,
                      two_value |-> dict_another.variables[key].two_value,
                      few_value |-> dict_another.variables[key].few_value,
                      many_value |-> dict_another.variables[key].many_value,
                      other_value |-> dict_another.variables[key].other_value]
                ELSE dict_self.variables[key]]]
    /\ dict_pc' = "merged"
    /\ UNCHANGED <<dict_another, dict_contents, dict_result, dict_before>>
    /\ UNCHANGED <<parser_vars, file_vars, bundle_vars, entry_vars, call_vars, parser2_vars>>

\* ------------------------------------------------- the entries and the maps

\* The most variables an entry has.
MaxVariables == 2

\* The names of the variables.
VariableNames == {<<"n", "m", "l">>[i] : i \in 1..MaxVariables}

\* The sets of categories a variable defines.
Shapes == {{}, {"other"}, {"one", "other"}, {"zero", "one", "two", "few", "many", "other"}}

\* A variable of owner (self or another) that defines the categories of shape.
VariableOf(owner, value_type, shape) ==
    [value_type |-> value_type,
     zero_value |-> IF "zero" \in shape THEN owner \o " zero" ELSE None,
     one_value |-> IF "one" \in shape THEN owner \o " one" ELSE None,
     two_value |-> IF "two" \in shape THEN owner \o " two" ELSE None,
     few_value |-> IF "few" \in shape THEN owner \o " few" ELSE None,
     many_value |-> IF "many" \in shape THEN owner \o " many" ELSE None,
     other_value |-> IF "other" \in shape THEN owner \o " other" ELSE None]

\* The entries of owner: any of the names, each variable of any shape.
EntriesOf(owner, value_type) ==
    UNION {{DotStringsDictEntry("key", "%#@n@", [name \in names |-> VariableOf(owner, value_type, shape[name])]) :
               shape \in [names -> Shapes]} : names \in SUBSET VariableNames}

\* The maps of a variable in a stringsdict file: with or without the spec key, with
\* the right or another spec type, with or without the value type, of any shape.
VariableMaps ==
    {[k \in shape \cup (IF spec = None THEN {} ELSE {VARIABLE_VALUE_SPEC_KEY})
                  \cup (IF type = None THEN {} ELSE {VARIABLE_VALUE_TYPE_KEY}) |->
         IF k = VARIABLE_VALUE_SPEC_KEY THEN spec
         ELSE IF k = VARIABLE_VALUE_TYPE_KEY THEN type
         ELSE "file " \o k] :
        shape \in Shapes,
        spec \in {None, VARIABLE_VALUE_SPEC_PLURAL, "NSStringGenderRuleType"},
        type \in {None, "d"}}

\* The items of the variables named, in the order of the names.
RECURSIVE VariableLists(_)
VariableLists(n) ==
    IF n = 0 THEN {<< >>}
    ELSE {rest \o item : rest \in VariableLists(n - 1),
                         item \in {<< >>} \cup {<<[name |-> <<"n", "m", "l">>[n], value |-> map]>> :
                                                   map \in VariableMaps}}

\* The dicts parse is given: with or without the format key.
Contents ==
    {[format |-> format, variables |-> variables] :
        format \in {<< >>, <<"%#@n@">>},
        variables \in VariableLists(MaxVariables)}

InitDict ==
    /\ dict_pc \in {"merge", "parse"}
    /\ IF dict_pc = "merge"
       THEN /\ dict_self \in EntriesOf("self", "d")
            /\ dict_another \in EntriesOf("another", "f")
            /\ dict_contents = << >>
       ELSE /\ dict_self = << >>
            /\ dict_another = << >>
            /\ dict_contents \in {[key |-> "key", contents |-> c] : c \in Contents}
    /\ dict_before = dict_self
    /\ dict_result = << >>
    /\ pc = "idle"
    /\ ParserIdle
    /\ FilesIdle
    /\ BundleIdle
    /\ EntryIdle
    /\ CallsIdle
    /\ Parser2Idle

NextDict ==
    \/ merge
    \/ parse

SpecDict == InitDict /\ [][NextDict]_vars

\* C15: after merge, for every variable in both entries and every category, self
\* has another's value when both define it and keeps its own when another does not
\* define it; the variables only self has keep all their values.
C15_MergePrefersAnother ==
    dict_pc = "merged" =>
        \A name \in DOMAIN dict_before.variables :
            IF name \in DOMAIN dict_another.variables
            THEN \A i \in DOMAIN Categories :
                    LET f == Field(Categories[i])
                        mine == dict_before.variables[name][f]
                        theirs == dict_another.variables[name][f]
                        now == dict_self.variables[name][f]
                    IN  /\ (mine # None /\ theirs # None) => now = theirs
                        /\ theirs = None => now = mine
            ELSE dict_self.variables[name] = dict_before.variables[name]

\* The map of a variable lacks what Variable.parse asks for.
Malformed(map) ==
    \/ VARIABLE_VALUE_SPEC_KEY \notin DOMAIN map
    \/ map[VARIABLE_VALUE_SPEC_KEY] # VARIABLE_VALUE_SPEC_PLURAL
    \/ VARIABLE_VALUE_TYPE_KEY \notin DOMAIN map

\* C16: parse fails when the format key is missing and when a variable map lacks
\* the spec key, has another spec type or lacks the value type, and then returns no
\* entry; otherwise the entry has one variable for each key but the format key, with
\* the value type and the six optional values of its map.
C16_ParseValidates ==
    LET c == dict_contents.contents.variables
        names == {c[i].name : i \in 1..Len(c)}
        map(name) == c[CHOOSE i \in 1..Len(c) : c[i].name = name].value
    IN  dict_pc \in {"parsed", "raised"} =>
            IF \/ dict_contents.contents.format = << >>
               \/ \E name \in names : Malformed(map(name))
            THEN dict_pc = "raised" /\ dict_result.value = << >>
            ELSE /\ dict_pc = "parsed"
                 /\ Len(dict_result.value) = 1
                 /\ dict_result.value[1].key = dict_contents.key
                 /\ dict_result.value[1].value = dict_contents.contents.format[1]
                 /\ DOMAIN dict_result.value[1].variables = names
                 /\ \A name \in names :
                     LET v == dict_result.value[1].variables[name]
                     IN  /\ v.value_type = map(name)[VARIABLE_VALUE_TYPE_KEY]
                         /\ \A i \in DOMAIN Categories :
                             v[Field(Categories[i])] = Get(map(name), Categories[i])

\* A dict with the format key and a variable of another spec type was refused.
C16_Witness ==
    /\ dict_pc = "raised"
    /\ dict_contents.contents.format # << >>
    /\ \E i \in 1..Len(dict_contents.contents.variables) :
        LET map == dict_contents.contents.variables[i].value
        IN  /\ VARIABLE_VALUE_SPEC_KEY \in DOMAIN map
            /\ map[VARIABLE_VALUE_SPEC_KEY] # VARIABLE_VALUE_SPEC_PLURAL
    /\ dict_result.value = << >>

\* ================================================================ bundles
\* LocalizedBundle (localized_bundle.py).  raw_entries is a dict of languages to
\* dicts of tables to lists of strings: here the sequence, in the order of the dict,
\* of its items [language, table_map], a table_map being a function on its tables.

\* The languages of a dict of languages: languages().
Keys(entries) == {entries[i].language : i \in 1..Len(entries)}

\* entries[language], for a language of the dict.
TableMap(entries, language) ==
    entries[CHOOSE i \in 1..Len(entries) : entries[i].language = language].table_map

\* The (language, table) pairs of a dict of languages.
Pairs(entries) ==
    UNION {{<<entries[i].language, table>> : table \in DOMAIN entries[i].table_map} :
              i \in 1..Len(entries)}

\* The body of the outer loop of merge_bundle for one item of other: every table of
\* the item is stored under its language, which is added when self lacks it; an item
\* without tables leaves self as it is.
MergeLanguage(entries, item) ==
    IF DOMAIN item.table_map = {} THEN entries
    ELSE IF item.language \notin Keys(entries)
    THEN Append(entries, [language |-> item.language, table_map |-> item.table_map])
    ELSE [i \in 1..Len(entries) |->
            IF entries[i].language # item.language THEN entries[i]
            ELSE [language |-> item.language,
                  table_map |->
                      [table \in DOMAIN entries[i].table_map \cup DOMAIN item.table_map |->
                          IF table \in DOMAIN item.table_map
                          THEN item.table_map[table]
                          ELSE entries[i].table_map[table]]]]

\* The outer loop of merge_bundle over the first n items of another bundle.
RECURSIVE MergeBundle(_, _, _)
MergeBundle(entries, another, n) ==
    IF n = 0 THEN entries
    ELSE MergeLanguage(MergeBundle(entries, another, n - 1), another[n])

\* What a method of the bundle returns or raises.
Returns(value) == [raised |-> FALSE, error |-> << >>, value |-> value]

Raises(failure) == [raised |-> TRUE, error |-> failure, value |-> << >>]

\* Mutant: validate_identical looks for extra tables only.
TableNamesExtraOnly(entries, validate_identical) ==
    LET found_tables == [i \in 1..Len(entries) |-> DOMAIN entries[i].table_map]
        differing == {i \in 1..Len(entries) : found_tables[i] \ found_tables[1] # {}}
    IN  IF validate_identical
        THEN IF Len(entries) = 0 THEN Returns({})
             ELSE IF differing # {}
             THEN Raises([text |-> "The following table names were in ... but not in ...",
                          in |-> entries[Min(differing)].language,
                          not_in |-> entries[1].language,
                          table_names |-> found_tables[Min(differing)] \ found_tables[1]])
             ELSE Returns(found_tables[1])
        ELSE Returns(UNION {found_tables[i] : i \in 1..Len(entries)})

\* table_names(validate_identical): the first language, in the order of the dict,
\* whose tables are not those of the first language raises, for its extra tables
\* when it has some and else for its missing tables.
TableNames(entries, validate_identical) ==
    LET found_tables == [i \in 1..Len(entries) |-> DOMAIN entries[i].table_map]
        differing == {i \in 1..Len(entries) : found_tables[i] # found_tables[1]}
    IN  IF validate_identical
        THEN IF Len(entries) = 0 THEN Returns({})
             ELSE IF differing # {}
             THEN LET language == Min(differing)
                      extra_tables == found_tables[language] \ found_tables[1]
                      missing_tables == found_tables[1] \ found_tables[language]
                  IN  IF extra_tables # {}
                      THEN Raises([text |-> "The following table names were in ... but not in ...",
                                   in |-> entries[language].language,
                                   not_in |-> entries[1].language,
                                   table_names |-> extra_tables])
                      ELSE Raises([text |-> "The following table names were in ... but not in ...",
                                   in |-> entries[1].language,
                                   not_in |-> entries[language].language,
                                   table_names |-> missing_tables])
             ELSE Returns(found_tables[1])
        ELSE Returns(UNION {found_tables[i] : i \in 1..Len(entries)})

\* The object() that table_map.get returns for a table the language lacks: a value
\* that is no list of strings of the bundle.
sentinel == <<"<object object>">>

\* table_for_languages(table, allow_missing=...): the first language but Base that
\* lacks the table raises unless allow_missing; else every language but a Base that
\* lacks the table gets table_data, the sentinel where the table is missing.
TableForLanguages(entries, table, allow_missing) ==
    LET lacking == {i \in 1..Len(entries) : table \notin DOMAIN entries[i].table_map}
        refused == {i \in lacking : entries[i].language # "Base" /\ ~allow_missing}
        kept == {i \in 1..Len(entries) : ~(i \in lacking /\ entries[i].language = "Base")}
    IN  IF refused # {}
        THEN Raises([text |-> "Could not find table ... for language ...",
                     table |-> table,
                     language |-> entries[Min(refused)].language])
        ELSE Returns([language \in {entries[i].language : i \in kept} |->
                         IF table \in DOMAIN TableMap(entries, language)
                         THEN TableMap(entries, language)[table]
                         ELSE sentinel])

\* merge_bundle(other)
merge_bundle ==
    /\ bundle_pc = "call"
    /\ bundle_call.op = "merge_bundle"
    /\ raw_entries' = MergeBundle(raw_entries, other, Len(other))
    /\ bundle_result' = Returns(None)
    /\ bundle_pc' = "returned"
    /\ UNCHANGED <<bundle_call, other, bundle_before>>
    /\ UNCHANGED <<parser_vars, file_vars, dict_vars, entry_vars, call_vars, parser2_vars>>

\* table_names(validate_identical)
table_names ==
    /\ bundle_pc = "call"
    /\ bundle_call.op = "table_names"
    /\ bundle_result' = TableNames(raw_entries, bundle_call.validate_identical)
    /\ bundle_pc' = IF bundle_result'.raised THEN "raised" ELSE "returned"
    /\ UNCHANGED <<bundle_call, raw_entries, other, bundle_before>>
    /\ UNCHANGED <<parser_vars, file_vars, dict_vars, entry_vars, call_vars, parser2_vars>>

\* table_for_languages(table, allow_missing=...)
table_for_languages ==
    /\ bundle_pc = "call"
    /\ bundle_call.op = "table_for_languages"
    /\ bundle_result' = TableForLanguages(raw_entries, bundle_call.table,
                                          bundle_call.allow_missing)
    /\ bundle_pc' = IF bundle_result'.raised THEN "raised" ELSE "returned"
    /\ UNCHANGED <<bundle_call, raw_entries, other, bundle_before>>
    /\ UNCHANGED <<parser_vars, file_vars, dict_vars, entry_vars, call_vars, parser2_vars>>

\* tables(validate_missing=...): table_for_languages for every name of table_names(),
\* a set that is walked in no fixed order, so that any of the tables that raise may
\* be the one that ends the call.
tables ==
    /\ bundle_pc = "call"
    /\ bundle_call.op = "tables"
    /\ LET names == TableNames(raw_entries, FALSE).value
           each == [table_name \in names |->
                       TableForLanguages(raw_entries, table_name,
                                         ~bundle_call.validate_missing)]
       IN  IF \E table_name \in names : each[table_name].raised
           THEN \E table_name \in {t \in names : each[t].raised} :
                    bundle_result' = each[table_name]
           ELSE bundle_result' = Returns([table_name \in names |-> each[table_name].value])
    /\ bundle_pc' = IF bundle_result'.raised THEN "raised" ELSE "returned"
    /\ UNCHANGED <<bundle_call, raw_entries, other, bundle_before>>
    /\ UNCHANGED <<parser_vars, file_vars, dict_vars, entry_vars, call_vars, parser2_vars>>

\* ------------------------------------------------------------ the bundles

\* The most languages a bundle has.
MaxLanguages == 2

\* The language codes and the tables of the bundles.
LanguageCodes == {"Base", "en", "fr"}

TableCodes == {"One", "Two"}

\* The orders of up to MaxLanguages different languages.
LanguageOrders ==
    UNION {{order \in [1..n -> LanguageCodes] :
               \A i, j \in 1..n : i # j => order[i] # order[j]} : n \in 0..MaxLanguages}

\* The bundles of an owner: each language with any of the tables, each table with
\* a list of one string that tells the owner, the language and the table.
Bundles(owner) ==
    UNION {{[i \in 1..Len(order) |->
               [language |-> order[i],
                table_map |-> [table \in chosen[i] |->
                                  <<owner \o " " \o order[i] \o " " \o table>>]]] :
               chosen \in [1..Len(order) -> SUBSET TableCodes]} :
              order \in LanguageOrders}

\* The calls on a bundle.
BundleCalls ==
    {[op |-> "table_names", validate_identical |-> b] : b \in BOOLEAN}
    \cup {[op |-> "table_for_languages", table |-> t, allow_missing |-> b] :
             t \in TableCodes, b \in BOOLEAN}
    \cup {[op |-> "tables", validate_missing |-> b] : b \in BOOLEAN}
    \cup {[op |-> "merge_bundle"]}

InitBundle ==
    /\ bundle_pc = "call"
    /\ bundle_call \in BundleCalls
    /\ raw_entries \in Bundles("a")
    /\ IF bundle_call.op = "merge_bundle" THEN other \in Bundles("b") ELSE other = << >>
    /\ bundle_before = [raw_entries |-> raw_entries, other |-> other]
    /\ bundle_result = << >>
    /\ pc = "idle"
    /\ ParserIdle
    /\ FilesIdle
    /\ DictIdle
    /\ EntryIdle
    /\ CallsIdle
    /\ Parser2Idle

NextBundle ==
    \/ merge_bundle
    \/ table_names
    \/ table_for_languages
    \/ tables

SpecBundle == InitBundle /\ [][NextBundle]_vars

\* merge_bundle has ended.
Merged == bundle_pc \in {"returned", "raised"} /\ bundle_call.op = "merge_bundle"

\* C17: merge_bundle raises whenever other has a (language, table) pair that the
\* bundle already has, and the bundle is then as it was.
C17_MergeRaisesOnCommonPair ==
    (Merged /\ Pairs(bundle_before.raw_entries) \cap Pairs(bundle_before.other) # {}) =>
        /\ bundle_pc = "raised"
        /\ raw_entries = bundle_before.raw_entries

\* C18: after a merge of bundles with no pair in common, the bundle has every pair
\* of other with other's strings and every pair it had with its strings, its
\* languages are those of both, and other is as it was.
C18_MergeEffect ==
    LET a == bundle_before.raw_entries
        b == bundle_before.other
    IN  (Merged /\ Pairs(a) \cap Pairs(b) = {}) =>
            /\ \A pair \in Pairs(b) :
                /\ pair \in Pairs(raw_entries)
                /\ TableMap(raw_entries, pair[1])[pair[2]] = TableMap(b, pair[1])[pair[2]]
            /\ \A pair \in Pairs(a) :
                /\ pair \in Pairs(raw_entries)
                /\ TableMap(raw_entries, pair[1])[pair[2]] = TableMap(a, pair[1])[pair[2]]
            /\ Keys(raw_entries) = Keys(a) \cup Keys(b)
            /\ other = b

\* C19: table_names(validate_identical=True) returns the tables of the first
\* language when every language has the same tables, and else raises, naming a
\* language whose tables differ and its extra or its missing tables;
\* table_names(validate_identical=False) returns the tables of all languages.
C19_TableNames ==
    (bundle_pc \in {"returned", "raised"} /\ bundle_call.op = "table_names") =>
        LET n == Len(raw_entries)
            found == [i \in 1..n |-> DOMAIN raw_entries[i].table_map]
        IN  /\ raw_entries = bundle_before.raw_entries
            /\ IF ~bundle_call.validate_identical
               THEN /\ bundle_pc = "returned"
                    /\ bundle_result.value = UNION {found[i] : i \in 1..n}
               ELSE IF \A i \in 1..n : found[i] = found[1]
               THEN /\ bundle_pc = "returned"
                    /\ \A i \in 1..n : bundle_result.value = found[i]
                    /\ n = 0 => bundle_result.value = {}
               ELSE /\ bundle_pc = "raised"
                    /\ \E i \in 1..n :
                        /\ found[i] # found[1]
                        /\ \/ /\ bundle_result.error.in = raw_entries[i].language
                              /\ bundle_result.error.not_in = raw_entries[1].language
                              /\ bundle_result.error.table_names = found[i] \ found[1]
                              /\ found[i] \ found[1] # {}
                           \/ /\ bundle_result.error.in = raw_entries[1].language
                              /\ bundle_result.error.not_in = raw_entries[i].language
                              /\ bundle_result.error.table_names = found[1] \ found[i]
                              /\ found[1] \ found[i] # {}

\* table_names(validate_identical=True) raised for a language that only lacks a
\* table of the first language.
C19_Witness ==
    /\ bundle_pc = "raised"
    /\ bundle_call.op = "table_names"
    /\ bundle_call.validate_identical
    /\ bundle_result.error.in = raw_entries[1].language
    /\ bundle_result.error.table_names # {}

\* C20: table_for_languages raises when a language other than Base lacks the table
\* and allow_missing is not set; else it returns a dict that has no Base that lacks
\* the table and whose every value is the list of strings the bundle holds for the
\* table in that language.
C20_TableForLanguages ==
    (bundle_pc \in {"returned", "raised"} /\ bundle_call.op = "table_for_languages") =>
        LET lacking == {i \in 1..Len(raw_entries) :
                           bundle_call.table \notin DOMAIN raw_entries[i].table_map}
        IN  IF ~bundle_call.allow_missing
               /\ \E i \in lacking : raw_entries[i].language # "Base"
            THEN bundle_pc = "raised"
            ELSE /\ bundle_pc = "returned"
                 /\ DOMAIN bundle_result.value \subseteq Keys(raw_entries)
                 /\ \A i \in lacking :
                     raw_entries[i].language = "Base" =>
                         "Base" \notin DOMAIN bundle_result.value
                 /\ \A language \in DOMAIN bundle_result.value :
                     /\ bundle_call.table \in DOMAIN TableMap(raw_entries, language)
                     /\ bundle_result.value[language] =
                            TableMap(raw_entries, language)[bundle_call.table]

\* ================================================== equality of entries
\* DotStringsEntry.__eq__ and __hash__ (dot_strings_entry.py 69-89).  An object is
\* its class and its attributes; the objects that are no DotStringsEntry here have
\* the attributes of one.

\* isinstance(object, DotStringsEntry)
IsEntry(object) == object.class = "DotStringsEntry"

\* DotStringsEntry.__eq__(self, other)
eq(self, object) ==
    IF ~IsEntry(object) THEN FALSE ELSE EntryEq(self.attributes, object.attributes)

\* hash of a str: a number that the characters and their order decide.
RECURSIVE StrHash(_)
StrHash(s) ==
    IF s = << >> THEN 7
    ELSE (StrHash(SubSeq(s, 1, Len(s) - 1)) * 31 + ord(s[Len(s)])) % 65536

\* hash of a tuple: a number that the hashes of the items and their order decide.
RECURSIVE TupleHash(_)
TupleHash(t) ==
    IF t = << >> THEN 3
    ELSE (TupleHash(SubSeq(t, 1, Len(t) - 1)) * 33 + t[Len(t)]) % 65536

\* DotStringsEntry.__hash__: hash((self.key, self.value, tuple(self.comments)))
hash(self) ==
    LET e == self.attributes
    IN  TupleHash(<<StrHash(e.key), StrHash(e.value),
                    TupleHash([i \in 1..Len(e.comments) |-> StrHash(e.comments[i])])>>)

\* self == other
Equals ==
    /\ eq_pc = "eq"
    /\ eq_result' = [eq_result EXCEPT !.equal = eq(eq_self, eq_other)]
    /\ eq_pc' = "hash"
    /\ UNCHANGED <<eq_self, eq_other>>
    /\ UNCHANGED <<parser_vars, file_vars, dict_vars, bundle_vars, call_vars, parser2_vars>>

\* hash(self), and hash(other) of another entry
Hashes ==
    /\ eq_pc = "hash"
    /\ eq_result' = [eq_result EXCEPT
                        !.hashes = IF IsEntry(eq_other)
                                   THEN <<hash(eq_self), hash(eq_other)>>
                                   ELSE <<hash(eq_self)>>]
    /\ eq_pc' = "done"
    /\ UNCHANGED <<eq_self, eq_other>>
    /\ UNCHANGED <<parser_vars, file_vars, dict_vars, bundle_vars, call_vars, parser2_vars>>

\* The entries that are compared: two keys, two values, no, one or two comments, the
\* same two in the other order, and two lines.
ComparedEntries ==
    {DotStringsEntry(<<k>>, v, c, n) :
        k \in {"a", "b"},
        v \in {<<"v">>, <<"v", "w">>},
        c \in {<< >>, <<<<"c">>>>, <<<<"c">>, <<"d">>>>, <<<<"d">>, <<"c">>>>},
        n \in {0, 1}}

\* The classes of the objects an entry is compared with: its own, the entry class of
\* string_types.py, and a class of something else with the same attributes.
Classes == {"DotStringsEntry", "string_types.DotStringsEntry", "SimpleNamespace"}

InitEntry ==
    /\ eq_pc = "eq"
    /\ eq_self \in {[class |-> "DotStringsEntry", attributes |-> e] : e \in ComparedEntries}
    /\ eq_other \in {[class |-> c, attributes |-> e] : c \in Classes, e \in ComparedEntries}
    /\ eq_result = [equal |-> FALSE, hashes |-> << >>]
    /\ pc = "idle"
    /\ ParserIdle
    /\ FilesIdle
    /\ DictIdle
    /\ BundleIdle
    /\ CallsIdle
    /\ Parser2Idle

NextEntry ==
    \/ Equals
    \/ Hashes

SpecEntry == InitEntry /\ [][NextEntry]_vars

\* C21: an entry equals an object exactly when the object is a DotStringsEntry with
\* the same key, value and comments, whatever the original lines; entries that are
\* equal have equal hashes.
C21_StructuralEquality ==
    eq_pc = "done" =>
        /\ eq_result.equal <=>
            /\ eq_other.class = "DotStringsEntry"
            /\ eq_self.attributes.key = eq_other.attributes.key
            /\ eq_self.attributes.value = eq_other.attributes.value
            /\ eq_self.attributes.comments = eq_other.attributes.comments
        /\ eq_result.equal =>
            /\ Len(eq_result.hashes) = 2
            /\ eq_result.hashes[1] = eq_result.hashes[2]

\* Two entries of different original lines were found equal, with one hash.
C21_Witness ==
    /\ eq_pc = "done"
    /\ eq_result.equal
    /\ eq_self.attributes.original_line # eq_other.attributes.original_line
    /\ eq_self.attributes.comments # << >>
    /\ eq_result.hashes[1] = eq_result.hashes[2]

\* ------------------------------------------------ the order of the patterns

\* C22: the quoteless pattern is tried only where the quoted pattern has just failed,
\* at the same offset, and so every quoted statement "k" = "v"; of a text of quoted
\* statements gives an entry of key k, a key without the quotes of the statements.
C22_QuotedFirst ==
    /\ pc = "quoteless" => (regular_entry /\ MatchEntry(string, offset) = NoEntry)
    /\ (pc = "extract" /\ ~regular_entry) =>
            MatchEntry(string, offset - Len(entry)) = NoEntry
    /\ (input.kind = "quoted" /\ FirstParse /\ Ended) =>
        /\ pc = "returned"
        /\ Len(result) = Len(input.expect)
        /\ \A i \in 1..Len(result) :
            /\ result[i].key = input.expect[i].key
            /\ \A j \in 1..Len(result[i].key) : result[i].key[j] # DQ

\* C23: an entry that the quoteless pattern has produced has a bare identifier as
\* its key: the key is not empty and holds no whitespace and no double quote.
C23_BareIdentifier ==
    (pc = "loop" /\ ~regular_entry /\ strings # << >>) =>
        LET key == strings[Len(strings)].key
        IN  /\ key # << >>
            /\ \A i \in 1..Len(key) : ~IsSpace(key[i]) /\ key[i] # DQ

\* C24: load moves on to the next candidate only after a UnicodeDecodeError; the
\* text of the candidate that decodes goes to loads, and when loads raises, that
\* error leaves load as it is and no further candidate is tried.
C24_ParseErrorsNotRetried ==
    /\ \A i \in 1..(Len(tried) - 1) :
        read(args.file_details, tried[i]).error = "UnicodeDecodeError"
    /\ pc \notin {"load", "open", "failed"} =>
        /\ tried # << >>
        /\ read(args.file_details, tried[Len(tried)]).error = ""
        /\ contents = read(args.file_details, tried[Len(tried)]).text
    /\ pc = "raised" =>
        /\ error.message \in {"Strings contain CRLF", "Expected an entry at offset",
                              "Failed to parse entry at offset"}
        /\ exception = NoException
        /\ result = << >>
        /\ ~ENABLED NextLoad

\* loads raised on the text of the third candidate while two more were left.
C24_Witness ==
    /\ pc = "raised"
    /\ error.message = "Expected an entry at offset"
    /\ Len(tried) >= 3
    /\ Len(encoding_list) >= 3

\* --------------------------------------------------------- the scanner

\* Where the match of the pattern that loads scans for next ends, when the pattern
\* matches at offset; NoMatch when it does not, or when loads is not about to scan.
PatternEnd ==
    CASE pc \in {"whitespace", "comment_whitespace"} -> WhitespaceEnd(string, offset)
      [] pc = "comment" -> MatchComment(string, offset)
      [] pc = "entry" -> MatchEntry(string, offset).end
      [] pc = "quoteless" -> MatchQuotelessEntry(string, offset).end
      [] OTHER -> NoMatch

\* The step is a call of Scanner.scan.
Scanning == nscans' = nscans + 1

\* C25: when the pattern matches at offset, scan returns the text from offset to the
\* end of the match, sets offset to that end and adds the newlines of the text to
\* line; the text returned never starts behind offset.
C25_ScanMatch ==
    [][(Scanning /\ PatternEnd # NoMatch) =>
            /\ offset' = PatternEnd
            /\ line' = line + CountNewlines(Slice(string, offset, PatternEnd))
            /\ string' = string
            /\ pc \in {"entry", "quoteless"} =>
                (pc' = "extract" /\ entry' = Slice(string, offset, offset'))
            /\ pc = "comment" =>
                comments' = comments \o CommentComponents(Slice(string, offset, offset'))]_vars

\* An entry scan returned a text of more than one line.
C25_Witness ==
    /\ pc = "extract"
    /\ CountNewlines(entry) >= 1
    /\ line >= 2
    /\ offset > Len(entry)

\* C26: when the pattern does not match at offset, scan returns None and leaves
\* offset, line and the text as they were.
C26_ScanNoMatch ==
    [][(Scanning /\ PatternEnd = NoMatch) =>
            /\ offset' = offset
            /\ line' = line
            /\ string' = string
            /\ pc \in {"entry", "quoteless"} => (pc' # "extract" /\ entry' = << >>)
            /\ pc = "comment" => (pc' = "entry" /\ comments' = comments)]_vars

\* Both entry patterns found nothing in front of a statement that a later offset
\* would match, and the scanner stands where it stood.
C26_Witness ==
    /\ pc = "raised"
    /\ error.message = "Expected an entry at offset"
    /\ error.offset = offset
    /\ offset > 0
    /\ \E o \in (offset + 1)..Len(string) : MatchEntry(string, o).end # NoMatch

\* C29: the offset of the scanner lies within the text and never decreases from one
\* scan to the next, line is the number of newlines in front of offset, and has_more
\* holds exactly when offset is less than the length of the text.
C29_ScannerInvariant ==
    /\ [](/\ 0 <= offset
          /\ offset <= Len(string)
          /\ line = CountNewlines(Slice(string, 0, offset))
          /\ has_more <=> offset < Len(string))
    /\ [][Scanning => offset' >= offset]_vars

\* The scanner has reached the end of a text of several lines.
C29_Witness ==
    /\ pc = "returned"
    /\ offset = Len(string)
    /\ ~has_more
    /\ line >= 2
    /\ nscans > 4

\* ----------------------------------------------------------- termination

\* Where a call of loads stands within one turn of the main loop, counted down
\* from the extraction of an entry that was scanned.
Rank ==
    CASE pc = "extract" -> 9
      [] pc = "loop" -> 8
      [] pc = "whitespace" -> 7
      [] pc = "comment_whitespace" -> 6
      [] pc = "comment" -> 5
      [] pc = "entry" -> 4
      [] pc = "quoteless" -> 3
      [] OTHER -> 0

\* What bounds the steps a call of loads has left: ten for each character that is
\* not scanned yet, and the rank of the step within the turn.
Variant ==
    IF pc = "start" THEN 10 * (Len(contents) + 1)
    ELSE IF Ended THEN 0
    ELSE 10 * (Len(string) - offset) + Rank

\* C28: every call of loads ends, by returning or by raising: each step of a call
\* under way makes Variant, a natural number, smaller, so no more than Variant steps
\* are left; a comment scan and an entry scan that match move offset forward, and
\* the main loop is entered again only behind an entry that was scanned.
C28_Terminates ==
    /\ [](Variant >= 0 /\ (Variant = 0 <=> Ended))
    /\ [][/\ ~Ended => Variant' < Variant
          /\ (pc = "comment" /\ pc' = "comment_whitespace") => offset' > offset
          /\ (pc \in {"entry", "quoteless"} /\ pc' = "extract") => offset' > offset
          /\ (pc' = "loop" /\ pc # "loop") =>
                (pc = "start" \/ (pc = "extract" /\ offset > keyOffsets'[Len(keyOffsets')]))]_vars

\* A call has ended after more than one turn of both loops.
C28_Witness ==
    /\ pc = "returned"
    /\ Len(strings) >= 2
    /\ Len(comments) >= 2
    /\ ~Contains(contents, <<"\r", NL>>)

\* ------------------------------------------------------- two calls of loads

\* The locals of a call of loads before its first statement; scanner is the Scanner
\* object the call allocates at line 115.
NewCall(text) ==
    [contents |-> text,
     pc |-> "start",
     scanner |-> [string |-> << >>, offset |-> 0, line |-> 0],
     strings |-> << >>,
     comments |-> << >>,
     entry |-> << >>,
     regular_entry |-> TRUE,
     result |-> << >>,
     error |-> NoError]

\* Scanner.scan on the Scanner object cursor, given where the pattern's match ends.
ScannerScan(cursor, end) ==
    IF end = NoMatch
    THEN [matched |-> FALSE, text |-> << >>, scanner |-> cursor]
    ELSE [matched |-> TRUE,
          text |-> Slice(cursor.string, cursor.offset, end),
          scanner |-> [cursor EXCEPT
                          !.offset = end,
                          !.line = @ + CountNewlines(Slice(cursor.string, cursor.offset, end))]]

CallRaise(call, message, at) ==
    [call EXCEPT !.pc = "raised", !.error = [message |-> message, offset |-> at]]

CallReturn(call) == [call EXCEPT !.pc = "returned", !.result = call.strings]

\* One step of loads on the locals of a call, cursor being the Scanner object the
\* name scanner of the call is bound to.
StepOf(call, cursor) ==
    CASE call.pc = "start" ->
            IF Contains(call.contents, <<"\r", NL>>)
            THEN CallRaise(call, "Strings contain CRLF", NoMatch)
            ELSE [call EXCEPT
                     !.scanner = [string |-> ReplaceCRLF(call.contents),
                                  offset |-> 0, line |-> 0],
                     !.strings = << >>,
                     !.pc = "loop"]
      [] call.pc = "loop" ->
            IF cursor.offset < Len(cursor.string)
            THEN [call EXCEPT !.pc = "whitespace"]
            ELSE CallReturn(call)
      [] call.pc = "whitespace" ->
            LET r == ScannerScan(cursor, WhitespaceEnd(cursor.string, cursor.offset))
            IN  [call EXCEPT !.scanner = r.scanner, !.comments = << >>, !.pc = "comment"]
      [] call.pc = "comment" ->
            LET r == ScannerScan(cursor, MatchComment(cursor.string, cursor.offset))
            IN  IF r.matched
                THEN [call EXCEPT !.scanner = r.scanner,
                                  !.comments = @ \o CommentComponents(r.text),
                                  !.pc = "comment_whitespace"]
                ELSE [call EXCEPT !.scanner = r.scanner, !.pc = "entry"]
      [] call.pc = "comment_whitespace" ->
            LET r == ScannerScan(cursor, WhitespaceEnd(cursor.string, cursor.offset))
            IN  [call EXCEPT !.scanner = r.scanner, !.pc = "comment"]
      [] call.pc = "entry" ->
            LET r == ScannerScan(cursor, MatchEntry(cursor.string, cursor.offset).end)
            IN  [call EXCEPT !.scanner = r.scanner,
                             !.entry = r.text,
                             !.regular_entry = TRUE,
                             !.pc = IF r.matched THEN "extract" ELSE "quoteless"]
      [] call.pc = "quoteless" ->
            LET r == ScannerScan(cursor, MatchQuotelessEntry(cursor.string, cursor.offset).end)
                scanned == [call EXCEPT !.scanner = r.scanner,
                                        !.entry = r.text,
                                        !.regular_entry = FALSE]
            IN  IF r.matched THEN [scanned EXCEPT !.pc = "extract"]
                ELSE IF cursor.offset < Len(cursor.string)
                THEN CallRaise(scanned, "Expected an entry at offset", cursor.offset)
                ELSE CallReturn(scanned)
      [] call.pc = "extract" ->
            LET m == IF call.regular_entry
                     THEN SearchEntry(call.entry)
                     ELSE SearchQuotelessEntry(call.entry)
            IN  IF m.end = NoMatch
                THEN CallRaise(call, "Failed to parse entry at offset", cursor.offset)
                ELSE [call EXCEPT
                         !.strings = Append(@, DotStringsEntry(m.key, m.value,
                                                               call.comments, cursor.line)),
                         !.pc = "loop"]
      [] OTHER -> call

\* Mutant: one Scanner object kept for all calls, the one the first call allocated.
ScannerOfShared(p) == calls.locals[1].scanner

\* The Scanner object the name scanner is bound to in call p: the one that call
\* allocated.
ScannerOf(p) == calls.locals[p].scanner

CallEnded(call) == call.pc \in {"returned", "raised"}

\* Call p takes its next step.  The other call is under way when it stands between
\* its first step and its end.
LoadsStep(p) ==
    /\ ~CallEnded(calls.locals[p])
    /\ calls' =
        [locals |-> [calls.locals EXCEPT ![p] = StepOf(calls.locals[p], ScannerOf(p))],
         overlapped |-> \/ calls.overlapped
                        \/ \E q \in {1, 2} \ {p} :
                              /\ calls.locals[q].pc # "start"
                              /\ ~CallEnded(calls.locals[q])]
    /\ UNCHANGED <<parser_vars, file_vars, dict_vars, bundle_vars, entry_vars, parser2_vars>>

\* The texts the two calls are made on.
CallTexts ==
    { << >>,
      QuotedStatement(<<"a">>, <<"1">>),
      <<"/", "*", " ", "c", " ", "*", "/", NL>> \o QuotedStatement(<<"a">>, <<"1">>)
          \o <<NL>> \o QuotelessStatement(<<"b">>, <<"2">>) \o <<NL>>,
      <<"/", "/", " ", "c", NL>> \o QuotedStatement(<<"a">>, <<"1">>) \o <<NL, "x">>,
      QuotedStatement(<<"a">>, <<"1">>) \o <<"\r", NL>> }

InitCalls ==
    /\ \E a \in CallTexts, b \in CallTexts :
          calls = [locals |-> <<NewCall(a), NewCall(b)>>, overlapped |-> FALSE]
    /\ pc = "idle"
    /\ ParserIdle
    /\ FilesIdle
    /\ DictIdle
    /\ BundleIdle
    /\ EntryIdle
    /\ Parser2Idle

NextCalls == \E p \in {1, 2} : LoadsStep(p)

SpecCalls == InitCalls /\ [][NextCalls]_vars

\* A call run alone from its locals to its end.
RECURSIVE Alone(_)
Alone(call) == IF CallEnded(call) THEN call ELSE Alone(StepOf(call, call.scanner))

LexToken(type, value, lexpos) == [type |-> type, value |-> value, lexpos |-> lexpos]

\* string_types.DotStringsEntry(key, value, comment); comment is Optional[str]: the
\* empty sequence stands for None, a sequence of one text for a string.
StringTypesEntry(key, value, comment) == [key |-> key, value |-> value, comment |-> comment]

\* The for loop of _generate_groups over tokens, from groups and current_group.
RECURSIVE GroupTokens(_, _, _)
GroupTokens(tokens, groups, current_group) ==
    IF tokens = << >> THEN [groups |-> groups, current_group |-> current_group]
    ELSE LET grown == Append(current_group, Head(tokens))
         IN  IF Head(tokens).type = "SEMI_COLON"
             THEN GroupTokens(Tail(tokens), Append(groups, grown), << >>)
             ELSE GroupTokens(Tail(tokens), groups, grown)

\* Mutant: the tokens behind the last semicolon are made a group of their own.
generate_groups_flushing(all_tokens) ==
    LET made == GroupTokens(all_tokens, << >>, << >>)
    IN  [raised |-> FALSE,
         groups |-> IF made.current_group # << >>
                    THEN Append(made.groups, made.current_group)
                    ELSE made.groups,
         error |-> [message |-> "", lexpos |-> NoMatch]]

\* _generate_groups: the groups, or the exception of line 109.
generate_groups(all_tokens) ==
    LET made == GroupTokens(all_tokens, << >>, << >>)
    IN  IF Len(made.current_group) # 0
        THEN [raised |-> TRUE,
              groups |-> << >>,
              error |-> [message |-> "Entry was not terminated on line",
                         lexpos |-> made.current_group[Len(made.current_group)].lexpos]]
        ELSE [raised |-> FALSE,
              groups |-> made.groups,
              error |-> [message |-> "", lexpos |-> NoMatch]]

\* "\n".join(comment_entries)
RECURSIVE JoinLines(_)
JoinLines(comment_entries) ==
    IF comment_entries = << >> THEN << >>
    ELSE IF Len(comment_entries) = 1 THEN Head(comment_entries)
    ELSE Head(comment_entries) \o <<NL>> \o JoinLines(Tail(comment_entries))

\* An exception of the body of the for loop.
GroupRaises(message, lexpos) ==
    [raised |-> TRUE, error |-> [message |-> message, lexpos |-> lexpos],
     made |-> << >>, group |-> << >>]

\* group[0] and group.pop(0) on an empty list.
IndexError == GroupRaises("IndexError", NoMatch)

\* Lines 129-165: the body of the for loop of parser2.loads on one group: the entry
\* it appends and what it leaves of the group, or the exception it raises.
ParseGroup(group) ==
    LET lead == {i \in 0..Len(group) : \A j \in 1..i : group[j].type = "COMMENT"}
        n == Max(lead)
        comment == JoinLines([i \in 1..n |-> group[i].value])
        rest == SubSeq(group, n + 1, Len(group))
    IN  IF rest = << >> THEN IndexError
        ELSE IF rest[1].type # "STRING"
        THEN GroupRaises("Expected a string at position", rest[1].lexpos)
        ELSE IF Len(rest) < 2 THEN IndexError
        ELSE IF rest[2].type # "EQUALS"
        THEN GroupRaises("Expected '=' at position", rest[2].lexpos)
        ELSE IF Len(rest) < 3 THEN IndexError
        ELSE IF rest[3].type # "STRING"
        THEN GroupRaises("Expected a string at position", rest[3].lexpos)
        ELSE IF Len(rest) < 4 THEN IndexError
        ELSE IF rest[4].type # "SEMI_COLON"
        THEN GroupRaises("Expected ';' at position", rest[4].lexpos)
        ELSE [raised |-> FALSE,
              error |-> [message |-> "", lexpos |-> NoMatch],
              made |-> <<StringTypesEntry(rest[1].value, rest[3].value,
                                          IF Len(comment) # 0 THEN <<comment>> ELSE << >>)>>,
              group |-> SubSeq(rest, 5, Len(rest))]

\* Lines 123-124: the tokens are put into groups.
GenerateGroups ==
    /\ p2_pc = "tokens"
    /\ LET made == generate_groups(p2_all_tokens)
       IN  /\ p2_groups' = made.groups
           /\ p2_error' = made.error
           /\ p2_pc' = IF made.raised THEN "raised" ELSE "groups"
    /\ p2_entries' = << >>
    /\ UNCHANGED <<p2_all_tokens, p2_done>>
    /\ UNCHANGED <<parser_vars, file_vars, dict_vars, bundle_vars, entry_vars, call_vars>>

\* Lines 128-165: one turn of the for loop.
LoadsGroup ==
    /\ p2_pc = "groups"
    /\ p2_groups # << >>
    /\ LET turn == ParseGroup(Head(p2_groups))
       IN  /\ p2_entries' = p2_entries \o turn.made
           /\ p2_error' = turn.error
           /\ p2_pc' = IF turn.raised THEN "raised" ELSE "groups"
    /\ p2_groups' = Tail(p2_groups)
    /\ p2_done' = Append(p2_done, Head(p2_groups))
    /\ UNCHANGED p2_all_tokens
    /\ UNCHANGED <<parser_vars, file_vars, dict_vars, bundle_vars, entry_vars, call_vars>>

\* Line 167: return entries.
LoadsReturn ==
    /\ p2_pc = "groups"
    /\ p2_groups = << >>
    /\ p2_pc' = "returned"
    /\ UNCHANGED <<p2_all_tokens, p2_groups, p2_entries, p2_error, p2_done>>
    /\ UNCHANGED <<parser_vars, file_vars, dict_vars, bundle_vars, entry_vars, call_vars>>

\* The longest run of arbitrary tokens in a token stream.
MaxRun == 2

\* The kinds of token: the four types, and a comment whose value is empty.
TokenKinds == {"COMMENT", "EMPTY_COMMENT", "STRING", "EQUALS", "SEMI_COLON"}

\* The values of the STRING tokens, by where they stand.
StringValues == <<"a", "b", "c", "d", "k", "q", "v", "w", "a", "b", "c", "d", "k", "q">>

\* Runs of arbitrary tokens, and the groups around the shape of an entry.
TokenRuns ==
    UNION {[1..n -> TokenKinds] : n \in 0..MaxRun}
    \cup { <<"STRING", "EQUALS", "STRING", "SEMI_COLON">>,
           <<"COMMENT", "STRING", "EQUALS", "STRING", "SEMI_COLON">>,
           <<"COMMENT", "EMPTY_COMMENT", "STRING", "EQUALS", "STRING", "SEMI_COLON">>,
           <<"EMPTY_COMMENT", "STRING", "EQUALS", "STRING", "SEMI_COLON">>,
           <<"STRING", "EQUALS", "STRING", "STRING", "SEMI_COLON">>,
           <<"STRING", "EQUALS", "STRING", "COMMENT", "SEMI_COLON">>,
           <<"STRING", "EQUALS", "STRING">> }

\* The tokens the lexer makes of a text whose tokens are of these kinds.
TokensOf(kinds) ==
    [i \in 1..Len(kinds) |->
        CASE kinds[i] = "COMMENT" -> LexToken("COMMENT", <<"c">>, i - 1)
          [] kinds[i] = "EMPTY_COMMENT" -> LexToken("COMMENT", << >>, i - 1)
          [] kinds[i] = "STRING" -> LexToken("STRING", <<StringValues[i]>>, i - 1)
          [] kinds[i] = "EQUALS" -> LexToken("EQUALS", <<"=">>, i - 1)
          [] OTHER -> LexToken("SEMI_COLON", <<";">>, i - 1)]

InitParser2 ==
    /\ p2_pc = "tokens"
    /\ \E a \in TokenRuns, b \in TokenRuns : p2_all_tokens = TokensOf(a \o b)
    /\ p2_groups = << >>
    /\ p2_entries = << >>
    /\ p2_error = [message |-> "", lexpos |-> NoMatch]
    /\ p2_done = << >>
    /\ pc = "idle"
    /\ ParserIdle
    /\ FilesIdle
    /\ DictIdle
    /\ BundleIdle
    /\ EntryIdle
    /\ CallsIdle

NextParser2 ==
    \/ GenerateGroups
    \/ LoadsGroup
    \/ LoadsReturn

SpecParser2 == InitParser2 /\ [][NextParser2]_vars

\* The types of the tokens of a group.
Types(group) == [i \in 1..Len(group) |-> group[i].type]

\* A group is COMMENT* STRING EQUALS STRING SEMI_COLON.
Shaped(group) ==
    /\ Len(group) >= 4
    /\ \A i \in 1..(Len(group) - 4) : group[i].type = "COMMENT"
    /\ SubSeq(Types(group), Len(group) - 3, Len(group))
           = <<"STRING", "EQUALS", "STRING", "SEMI_COLON">>

\* The tokens behind the last semicolon of the stream.
Unterminated ==
    LET semis == {i \in 1..Len(p2_all_tokens) : p2_all_tokens[i].type = "SEMI_COLON"}
    IN  SubSeq(p2_all_tokens, Max(semis \cup {0}) + 1, Len(p2_all_tokens))

\* C30: each group ends with its only SEMI_COLON; tokens behind the last semicolon
\* raise 'Entry was not terminated' and nothing else does; no group is read or
\* popped when it is empty; a group of the shape COMMENT* STRING EQUALS STRING
\* SEMI_COLON yields one entry, with its key and value, and any other group raises
\* one of the 'Expected' errors and ends the call.
C30_TokenGroups ==
    /\ \A g \in {p2_groups[i] : i \in 1..Len(p2_groups)}
                \cup {p2_done[i] : i \in 1..Len(p2_done)} :
          /\ g # << >>
          /\ g[Len(g)].type = "SEMI_COLON"
          /\ \A i \in 1..(Len(g) - 1) : g[i].type # "SEMI_COLON"
    /\ p2_pc # "tokens" =>
          /\ Unterminated # << >> <=>
                p2_error.message = "Entry was not terminated on line"
          /\ Unterminated # << >> => (p2_pc = "raised" /\ p2_done = << >>)
    /\ p2_error.message # "IndexError"
    /\ \A i \in 1..Len(p2_done) :
          IF Shaped(p2_done[i])
          THEN /\ i <= Len(p2_entries)
               /\ p2_entries[i].key = p2_done[i][Len(p2_done[i]) - 3].value
               /\ p2_entries[i].value = p2_done[i][Len(p2_done[i]) - 1].value
          ELSE /\ i = Len(p2_done)
               /\ p2_pc = "raised"
               /\ Len(p2_entries) = i - 1
               /\ p2_error.message \in {"Expected a string at position",
                                        "Expected '=' at position",
                                        "Expected ';' at position"}
    /\ p2_pc \in {"groups", "returned"} => Len(p2_entries) = Len(p2_done)
    /\ p2_pc = "returned" => p2_groups = << >>

\* Two groups of the shape have yielded two entries, the first with its comments.
C30_Witness ==
    /\ p2_pc = "returned"
    /\ Len(p2_entries) = 2
    /\ p2_entries[1].comment = <<<<"c", NL>>>>
    /\ p2_entries[2].comment = << >>

====
